---------------------------- MODULE Spec2Model ----------------------------
(***************************************************************************)
(* A model of zettarepl's replication runner,                              *)
(* src/zettarepl/replication/run.py: the task loop with its retry and      *)
(* backoff policy (run_replication_tasks), one part of a task              *)
(* (run_replication_task_part and what it calls), and the snapshot planner *)
(* (get_snapshots_to_send).                                                *)
(*                                                                         *)
(* Dataset names are paths, modelled as sequences of components:           *)
(* <<"a", "b">> is a/b.  Snapshot names are strings; datetimes are         *)
(* integers.  None is the string "None".                                   *)
(***************************************************************************)
EXTENDS Integers, Sequences, FiniteSets, TLC

None == "None"

\* the absent parsed snapshot (records are compared with records only)
NoParsed == [ naming_schema |-> None, name |-> None, datetime |-> 0 ]

(***************************************************************************)
(* Bounds of the model.                                                    *)
(***************************************************************************)
\* longest source / destination snapshot list handed to the planner
MaxSnaps == 3

(***************************************************************************)
(* Generic helpers.                                                        *)
(***************************************************************************)
Min(a, b) == IF a <= b THEN a ELSE b

Range(s) == { s[k] : k \in 1..Len(s) }

\* the subsequences of s (elements kept in the order of s) of length <= n
RECURSIVE SubSeqs(_, _)
SubSeqs(s, n) ==
    IF s = <<>> \/ n = 0 THEN { <<>> }
    ELSE SubSeqs(Tail(s), n)
         \cup { <<Head(s)>> \o r : r \in SubSeqs(Tail(s), n - 1) }

(***************************************************************************)
(* Snapshot names and their parsing (zettarepl.snapshot.name).             *)
(*                                                                         *)
(* Two naming schemas, "A" and "B".  ParseTable lists, for every snapshot  *)
(* name, the schemas that match it and the datetime each reads from it; a  *)
(* name matching no schema is not in the table.                            *)
(*   s1, s2, s3  match A with datetimes 1, 2, 3                            *)
(*   r2          matches A with datetime 2 (same datetime as s2)           *)
(*   b1          matches B only, datetime 1                                *)
(*   ab          matches A (datetime 2) and B (datetime 3)                 *)
(*   mm          matches A and B with the same datetime 3                  *)
(*   x           matches no schema                                         *)
(***************************************************************************)
ParseTable ==
    { <<"s1", "A", 1>>, <<"s2", "A", 2>>, <<"s3", "A", 3>>, <<"r2", "A", 2>>,
      <<"b1", "B", 1>>, <<"ab", "A", 2>>, <<"ab", "B", 3>>,
      <<"mm", "A", 3>>, <<"mm", "B", 3>> }

\* every snapshot name of the model, in ZFS creation order
AllSnapshots == << "x", "b1", "s1", "r2", "s2", "ab", "mm", "s3" >>

\* lexicographic order of the names: ab < b1 < mm < r2 < s1 < s2 < s3 < x
NameOrder == << "ab", "b1", "mm", "r2", "s1", "s2", "s3", "x" >>

NameRank(name) == CHOOSE k \in 1..Len(NameOrder) : NameOrder[k] = name

DatetimeMax == 9

\* parse_snapshot_name: the datetime schema reads from name, None if it
\* does not match
ParseSnapshotName(name, schema) ==
    IF \E e \in ParseTable : e[1] = name /\ e[2] = schema
    THEN [ naming_schema |-> schema, name |-> name,
           datetime |-> (CHOOSE e \in ParseTable : e[1] = name /\ e[2] = schema)[3] ]
    ELSE NoParsed

\* parse_snapshots_names: the names of the list that match schema, parsed
RECURSIVE ParseSnapshotsNames(_, _)
ParseSnapshotsNames(names, schema) ==
    IF names = <<>> THEN <<>>
    ELSE LET p == ParseSnapshotName(Head(names), schema)
         IN  (IF p = NoParsed THEN <<>> ELSE <<p>>)
             \o ParseSnapshotsNames(Tail(names), schema)

\* parse_snapshots_names_with_multiple_schemas: one pass per schema
RECURSIVE ParseSnapshotsNamesWithMultipleSchemas(_, _)
ParseSnapshotsNamesWithMultipleSchemas(names, naming_schemas) ==
    IF naming_schemas = <<>> THEN <<>>
    ELSE ParseSnapshotsNames(names, Head(naming_schemas))
         \o ParseSnapshotsNamesWithMultipleSchemas(names, Tail(naming_schemas))

\* parsed_snapshot_sort_key is (datetime, name); KeyLess is < on these keys
KeyLess(p, q) ==
    \/ p.datetime < q.datetime
    \/ p.datetime = q.datetime /\ NameRank(p.name) < NameRank(q.name)

KeyLeq(p, q) == ~KeyLess(q, p)

\* sorted(s, key=parsed_snapshot_sort_key): stable insertion sort
RECURSIVE InsertSorted(_, _)
InsertSorted(p, s) ==
    IF s = <<>> THEN <<p>>
    ELSE IF KeyLess(p, Head(s)) THEN <<p>> \o s
         ELSE <<Head(s)>> \o InsertSorted(p, Tail(s))

RECURSIVE Sorted(_)
Sorted(s) ==
    IF s = <<>> THEN <<>>
    ELSE InsertSorted(s[Len(s)], Sorted(SubSeq(s, 1, Len(s) - 1)))

(***************************************************************************)
(* The per-task predicates the planner consults.                           *)
(***************************************************************************)
\* replication_task_naming_schemas
ReplicationTaskNamingSchemas(task) == task.naming_schemas

\* replication_task_should_replicate_parsed_snapshot: the task's schedule
\* restriction, here the set of datetimes the task does not replicate
ShouldReplicateParsedSnapshot(task, p) == p.datetime \notin task.restrict

\* retention_policy.calculate_delete_snapshots(now, source, target): a
\* "custom" policy deletes the target snapshots older than its period at
\* now; the other policies ("source", "none") delete nothing here
CalculateDeleteSnapshots(task, now, source_snapshots, target_snapshots) ==
    IF task.retention.kind # "custom" THEN {}
    ELSE { p \in Range(target_snapshots) : p.datetime < now - task.retention.period }

SetMax(S) == CHOOSE m \in S : \A o \in S : o <= m

(***************************************************************************)
(* get_snapshots_to_send                                                   *)
(***************************************************************************)
\* ParsedIncrementalBase taking the first of the sorted list
ParsedIncrementalBaseOldest(parsed_src_snapshots, parsed_dst_snapshots) ==
    LET common == Range(parsed_src_snapshots) \cap Range(parsed_dst_snapshots)
    IN  IF common = {} THEN NoParsed
        ELSE CHOOSE p \in common : \A q \in common : KeyLeq(p, q)

\* sorted(set(parsed_src) & set(parsed_dst), key=...)[-1], None on IndexError
ParsedIncrementalBase(parsed_src_snapshots, parsed_dst_snapshots) ==
    LET common == Range(parsed_src_snapshots) \cap Range(parsed_dst_snapshots)
    IN  IF common = {} THEN NoParsed
        ELSE CHOOSE p \in common : \A q \in common : KeyLeq(q, p)

\* parsed_snapshot != base and sorted([parsed_snapshot, base])[0] == base
IsNewerThan(p, base) ==
    /\ p # base
    /\ Sorted(<<p, base>>)[1] = base

\* the candidates: sorted source snapshots newer than the base that the task
\* replicates
CandidatesToSend(task, parsed_src_snapshots, parsed_incremental_base) ==
    LET Keep(p) ==
            /\ \/ parsed_incremental_base = NoParsed
               \/ IsNewerThan(p, parsed_incremental_base)
            /\ ShouldReplicateParsedSnapshot(task, p)
    IN  SelectSeq(Sorted(parsed_src_snapshots), Keep)

\* max([p.datetime for p in parsed_src_snapshots] or [datetime.max])
RetentionRefTime(parsed_src_snapshots) ==
    IF parsed_src_snapshots = <<>> THEN DatetimeMax
    ELSE SetMax({ p.datetime : p \in Range(parsed_src_snapshots) })

\* the candidates the retention policy would not remove
PruneByRetention(task, parsed_src_snapshots, candidates) ==
    LET will_be_removed ==
            CalculateDeleteSnapshots(task, RetentionRefTime(parsed_src_snapshots),
                                     candidates, candidates)
        Keep(p) == p \notin will_be_removed
    IN  SelectSeq(candidates, Keep)

\* The result: incremental_base and snapshots_to_send (names), and, for the
\* properties, the parsed snapshots behind the names.
GetSnapshotsToSend(src_snapshots, dst_snapshots, task) ==
    LET naming_schemas == ReplicationTaskNamingSchemas(task)
        parsed_src == ParseSnapshotsNamesWithMultipleSchemas(src_snapshots, naming_schemas)
        parsed_dst == ParseSnapshotsNamesWithMultipleSchemas(dst_snapshots, naming_schemas)
        base       == ParsedIncrementalBase(parsed_src, parsed_dst)
        candidates == CandidatesToSend(task, parsed_src, base)
        to_send    == PruneByRetention(task, parsed_src, candidates)
    IN  [ incremental_base |-> IF base = NoParsed THEN None ELSE base.name,
          snapshots_to_send |-> [ k \in 1..Len(to_send) |-> to_send[k].name ],
          parsed_base |-> base,
          parsed_to_send |-> to_send ]

(***************************************************************************)
(* Datasets.  The source pool holds a, a/b and c; the destinations are the *)
(* targets of the tasks below.                                             *)
(***************************************************************************)
\* every source dataset, in the order Python sorts the names
SourceDatasets == << <<"a">>, <<"a", "b">>, <<"c">> >>

DestinationDatasets == { <<"T", "a">>, <<"T", "a", "b">>, <<"T", "c">>, <<"U">> }

DatasetRank(d) == CHOOSE k \in 1..Len(SourceDatasets) : SourceDatasets[k] = d

\* is_child(child, parent): child = parent or child starts with parent + "/"
IsChild(child, parent) ==
    /\ Len(child) >= Len(parent)
    /\ SubSeq(child, 1, Len(parent)) = parent

\* os.path.dirname
Dirname(d) == IF d = <<>> THEN <<>> ELSE SubSeq(d, 1, Len(d) - 1)

\* the longest common prefix of two paths
RECURSIVE CommonPrefix(_, _)
CommonPrefix(d, e) ==
    IF d = <<>> \/ e = <<>> \/ Head(d) # Head(e) THEN <<>>
    ELSE <<Head(d)>> \o CommonPrefix(Tail(d), Tail(e))

RECURSIVE SourceDatasetBase(_)
SourceDatasetBase(source_datasets) ==
    IF Len(source_datasets) = 1 THEN Head(source_datasets)
    ELSE CommonPrefix(Head(source_datasets), SourceDatasetBase(Tail(source_datasets)))

\* get_target_dataset: target_dataset + relpath(dataset, base of the sources)
GetTargetDataset(task, dataset) ==
    LET base == SourceDatasetBase(task.source_datasets)
    IN  task.target_dataset \o SubSeq(dataset, Len(base) + 1, Len(dataset))

\* replication_task_should_replicate_dataset: not under an excluded dataset
ShouldReplicateDataset(task, dataset) ==
    \A excluded \in task.exclude : ~IsChild(dataset, excluded)

\* dict.pop(key, None)
Pop(f, key) == [ k \in DOMAIN f \ { key } |-> f[k] ]

\* dict.get(key, default)
Get(f, key, default) == IF key \in DOMAIN f THEN f[key] ELSE default

\* the dict with the given keys
Dict(keys, Value(_)) == [ k \in keys |-> Value(k) ]

(***************************************************************************)
(* State.                                                                  *)
(***************************************************************************)
VARIABLES
    \* the input and the two pools
    replication_tasks,  \* the tasks, in the order they were handed over
    replication_tasks_parts, \* the parts (task, source_dataset), in the order they run
    src_zfs,            \* source dataset -> its snapshot names, oldest first
    zfs,                \* destination dataset -> its state on the pool
    \* run_replication_tasks
    pc,                 \* where the runner is
    part_idx,           \* index into Parts of the part of the for loop
    i,                  \* iterations of the retry loop begun for this part
    recoverable_error,  \* NoError or the message of the last recoverable error
    recoverable_sleep,
    started_replication_tasks_ids,
    failed_replication_tasks_ids,
    replication_tasks_parts_left,
    raised,             \* the exception the last call of run_replication_task_part
                        \* for this part raised, NoException if it returned
    remote_shell_open,  \* FALSE from remote_shell.close() to the next use
    \* the ReplicationContexts of the part
    src_datasets,       \* src_context.datasets
    dst_datasets,       \* dst_context.datasets
    dst_datasets_readonly,
    dst_datasets_receive_resume_tokens,
    \* run_replication_task_part and below
    step_templates,
    t_idx,              \* index of the template of the loop being run
    resumed,
    plan,
    ignored_roots,
    s_idx,              \* index into the snapshots of the plan's first entry
    incremental_base,   \* replicate_snapshots' incremental_base
    encryption,         \* replicate_snapshots' encryption
    step,               \* the ReplicationStep constructed last
    \* GlobalReplicationContext of each task: the counters of the templates
    \* that are no longer referenced (summed) and of the live templates
    retired_sent, retired_total,
    snapshots_sent_by_template, snapshots_total_by_template,
    \* what the observer and the clock have seen
    events,             \* per task: how many TaskStart, TaskSuccess, TaskError,
                        \* whether another event came before TaskStart, and
                        \* whether a TaskError came from the except clauses
    last_event,         \* the event the last step notified, NoEvent if none
    sleeps,             \* the time.sleep() arguments of the current part
    attempts,           \* calls of run_replication_task_part for this part
    parts_done,         \* the parts that returned normally
    sent_log,           \* per task: the (destination dataset, snapshot) of every
                        \* step of the run whose process returned, in order
    provider_writes,    \* the commands that change a pool, issued by the
                        \* attempt in progress, in the order they were issued
    \* the planner on its own
    pl_src,             \* src_snapshots
    pl_dst,             \* dst_snapshots
    pl_task,            \* the task's planner-relevant attributes
    pl_done,            \* whether get_snapshots_to_send has been called
    pl_result           \* what it returned (before the call: the empty plan)

inputvars == << replication_tasks, replication_tasks_parts, src_zfs >>
loopvars == << i, recoverable_error, recoverable_sleep, sleeps >>
taskvars == << started_replication_tasks_ids, failed_replication_tasks_ids,
               replication_tasks_parts_left >>
ctxvars == << retired_sent, retired_total,
              snapshots_sent_by_template, snapshots_total_by_template >>
listvars == << src_datasets, dst_datasets, dst_datasets_readonly,
               dst_datasets_receive_resume_tokens >>
partvars == << step_templates, t_idx, resumed, plan, ignored_roots, s_idx,
               incremental_base, encryption, step >>
plvars == << pl_src, pl_dst, pl_task, pl_done, pl_result >>

rvars == << inputvars, zfs, pc, part_idx, loopvars, taskvars, raised,
            remote_shell_open, listvars, partvars, ctxvars, events, last_event,
            attempts, parts_done, sent_log, provider_writes >>

vars == << rvars, plvars >>

(***************************************************************************)
(* The replication tasks of a run.                                         *)
(***************************************************************************)
\* task.retries: of the tasks of most runs, and of the task that shows the
\* whole backoff
RetriesShort == 2
RetriesLong == 9

TaskIds == { "t1", "t2" }

\* t1 replicates a (recursively) and c below T
BaseTask ==
    [ id |-> "t1", direction |-> "push",
      source_datasets |-> << <<"a">>, <<"c">> >>, target_dataset |-> <<"T">>,
      recursive |-> TRUE, exclude |-> {}, replicate |-> FALSE,
      naming_schemas |-> <<"A">>, restrict |-> {},
      retention |-> [ kind |-> "none", period |-> 0 ],
      readonly |-> "ignore", allow_from_scratch |-> FALSE,
      encryption |-> None, retries |-> RetriesShort ]

\* t2 replicates a alone into U
OnePartTask ==
    [ BaseTask EXCEPT !.id = "t2", !.direction = "pull",
                      !.source_datasets = << <<"a">> >>,
                      !.target_dataset = <<"U">>, !.recursive = FALSE,
                      !.retries = RetriesShort ]

TaskById(id) == CHOOSE t \in Range(replication_tasks) : t.id = id

(***************************************************************************)
(* calculate_replication_tasks_parts                                       *)
(***************************************************************************)
RECURSIVE TaskParts(_, _)
TaskParts(task, k) ==
    IF k > Len(task.source_datasets) THEN <<>>
    ELSE << [ task |-> task.id, source_dataset |-> task.source_datasets[k],
              recursive |-> task.recursive ] >>
         \o TaskParts(task, k + 1)

\* sum([[(task, source_dataset) for source_dataset in ...] for task in ...], [])
RECURSIVE AllParts(_)
AllParts(tasks) ==
    IF tasks = <<>> THEN <<>>
    ELSE TaskParts(Head(tasks), 1) \o AllParts(Tail(tasks))

\* PartLess comparing the source datasets alone
PartLessByDataset(p, q) ==
    DatasetRank(p.source_dataset) < DatasetRank(q.source_dataset)

\* the sort key: (source_dataset, 0 if recursive else 1)
PartLess(p, q) ==
    \/ DatasetRank(p.source_dataset) < DatasetRank(q.source_dataset)
    \/ /\ p.source_dataset = q.source_dataset
       /\ p.recursive /\ ~q.recursive

RECURSIVE InsertPart(_, _)
InsertPart(p, s) ==
    IF s = <<>> THEN <<p>>
    ELSE IF PartLess(p, Head(s)) THEN <<p>> \o s
         ELSE <<Head(s)>> \o InsertPart(p, Tail(s))

\* sorted(parts, key=...), stable
RECURSIVE SortParts(_)
SortParts(s) ==
    IF s = <<>> THEN <<>>
    ELSE InsertPart(s[Len(s)], SortParts(SubSeq(s, 1, Len(s) - 1)))

CalculateReplicationTasksParts(tasks) == SortParts(AllParts(tasks))

Parts == replication_tasks_parts

Part == Parts[part_idx]

Task == TaskById(Part.task)

(***************************************************************************)
(* Exceptions: what run_replication_task_part can raise, by class, each    *)
(* with its message.                                                       *)
(***************************************************************************)
\* the classes a call of the shell or of the transport can raise
ShellExceptions ==
    { "socket.timeout", "NoValidConnectionsError", "SSHException",
      "AuthenticationException", "IOError", "RecoverableReplicationError",
      "ReplicationError", "ExecException" }

\* str(e) of such an exception: the message as a sequence of pieces
Str(class) ==
    CASE class = "NoValidConnectionsError" -> << "[Errno None] ", "Unable to connect" >>
      [] class = "SSHException"            -> << "[Errno None] ", "SSH session not active" >>
      [] class = "AuthenticationException" -> << "[Errno None] ", "Authentication failed" >>
      [] OTHER                             -> << class >>

\* str(e).replace("[Errno None] ", "")
StripErrno(msg) == SelectSeq(msg, LAMBDA piece : piece # "[Errno None] ")

\* recoverable_error = None; its str() is "None"
NoError == << None >>

NoException == [ class |-> None, msg |-> <<>> ]

(***************************************************************************)
(* GlobalReplicationContext and the observer.                              *)
(***************************************************************************)
RECURSIVE SumOver(_, _)
SumOver(f, S) ==
    IF S = {} THEN 0
    ELSE LET d == CHOOSE d \in S : TRUE IN f[d] + SumOver(f, S \ {d})

\* SumSent over the live templates only
SumSentOfLiveTemplates(retired, by_template, task_id) ==
    SumOver(by_template[task_id], Range(SourceDatasets))

\* GlobalReplicationContext.snapshots_sent, for given counters
SumSent(retired, by_template, task_id) ==
    retired[task_id] + SumOver(by_template[task_id], Range(SourceDatasets))

SnapshotsSent(task_id) ==
    SumSent(retired_sent, snapshots_sent_by_template, task_id)

\* GlobalReplicationContext.snapshots_total
SnapshotsTotal(task_id) ==
    SumSent(retired_total, snapshots_total_by_template, task_id)

NoEvent == [ type |-> None, task |-> None, sent |-> 0, total |-> 0, msg |-> <<>> ]

\* notify(observer, event); sent and total are the task's counters as the
\* event is built
Notify(type, task_id, sent, total, msg) ==
    /\ last_event' = [ type |-> type, task |-> task_id, sent |-> sent,
                       total |-> total, msg |-> msg ]
    /\ events' = [ events EXCEPT ![task_id] =
                     [ start   |-> @.start + (IF type = "TaskStart" THEN 1 ELSE 0),
                       success |-> @.success + (IF type = "TaskSuccess" THEN 1 ELSE 0),
                       error   |-> @.error + (IF type = "TaskError" THEN 1 ELSE 0),
                       early   |-> @.early \/ (type # "TaskStart" /\ @.start = 0),
                       terminal |-> @.terminal \/ (type = "TaskError" /\ pc = "except") ] ]

\* a step that notifies nothing
NoNotify ==
    /\ last_event' = NoEvent
    /\ UNCHANGED events

(***************************************************************************)
(* The pools, as the shells and the transport show and change them.        *)
(***************************************************************************)
\* list_datasets_with_snapshots on the source
ListDatasetsWithSnapshots(dataset, recursive) ==
    Dict({ d \in Range(SourceDatasets) : d = dataset \/ (recursive /\ IsChild(d, dataset)) },
         LAMBDA d : src_zfs[d])

\* list_datasets_with_properties on the destination: the names under target
\* (the caller handles DatasetDoesNotExistException)
ListDestination(target, recursive) ==
    { d \in DestinationDatasets :
        zfs[d].exists /\ (d = target \/ (recursive /\ IsChild(d, target))) }

\* the readonly value dataset inherits
InheritedReadonly(pool, dataset) ==
    IF Dirname(dataset) \in DOMAIN pool THEN pool[Dirname(dataset)].readonly ELSE "off"

\* what receiving a stream of snapshot into dataset leaves on the pool; a
\* dataset that the receive creates inherits readonly
Received(pool, dataset, snapshot, recipe) ==
    LET old == pool[dataset]
    IN  [ pool EXCEPT ![dataset] =
            [ old EXCEPT !.exists = TRUE,
                         !.snapshots = Append(old.snapshots, snapshot),
                         !.receive_resume_token = "-",
                         !.mounted = TRUE,
                         !.has_data = TRUE,
                         !.readonly = IF old.exists THEN old.readonly
                                      ELSE InheritedReadonly(pool, dataset),
                         !.encryption = IF ~old.exists /\ recipe # None
                                        THEN "on" ELSE old.encryption ] ]

\* zfs umount dataset (an error of the command is ignored)
Unmounted(pool, dataset) == [ pool EXCEPT ![dataset].mounted = FALSE ]

NoStep ==
    [ src_dataset |-> <<>>, dst_dataset |-> <<>>, snapshot |-> None,
      incremental_base |-> None, receive_resume_token |-> None,
      encryption |-> None, observer_snapshot |-> None ]

\* a command of the destination's shell that changes the pool
Command(cmd, dataset) ==
    [ cmd |-> cmd, dataset |-> dataset, snapshot |-> None, incremental_base |-> None,
      receive_resume_token |-> None, encryption |-> None ]

\* the replication process of a step: zfs send piped into zfs recv
SendCommand(new_step) ==
    [ cmd |-> "send", dataset |-> new_step.dst_dataset, snapshot |-> new_step.snapshot,
      incremental_base |-> new_step.incremental_base,
      receive_resume_token |-> new_step.receive_resume_token,
      encryption |-> new_step.encryption ]

NoWrite == UNCHANGED provider_writes

Write(cmds) == provider_writes' = provider_writes \o cmds

(***************************************************************************)
(* run_replication_tasks                                                   *)
(***************************************************************************)
\* PartsOf as if every task had one part
PartsOfOnePart(task_id) == 1

\* len([1 for another_task, source_dataset in parts if another_task == task])
PartsOf(task_id) == Cardinality({ k \in 1..Len(Parts) : Parts[k].task = task_id })

\* AddStarted forgetting the task
AddStartedForgets(ids, task_id) == ids

\* started_replication_tasks_ids.add(replication_task.id)
AddStarted(ids, task_id) == ids \cup { task_id }

\* AddFailed forgetting the task
AddFailedForgets(ids, task_id) == ids

\* failed_replication_tasks_ids.add(replication_task.id)
AddFailed(ids, task_id) == ids \cup { task_id }

\* Retries with one iteration too many
RetriesOneMore(task) == task.retries + 1

\* range(replication_task.retries): how many iterations the retry loop has
Retries(task) == task.retries

\* Backoff without the cap
BackoffUncapped(sleep) == sleep * 2

\* recoverable_sleep = min(recoverable_sleep * 2, 60)
Backoff(sleep) == Min(sleep * 2, 60)

\* the for loop over the parts is exhausted: run_replication_tasks returns
Return ==
    /\ UNCHANGED sent_log
    /\ NoWrite
    /\ pc = "for_part"
    /\ part_idx > Len(Parts)
    /\ pc' = "done"
    /\ NoNotify
    /\ UNCHANGED << inputvars, zfs, part_idx, loopvars, taskvars, raised,
                    remote_shell_open, listvars, partvars, ctxvars, attempts,
                    parts_done, plvars >>

\* if replication_task.id in failed_replication_tasks_ids: continue
SkipPartOfFailedTask ==
    /\ UNCHANGED sent_log
    /\ NoWrite
    /\ pc = "for_part"
    /\ part_idx <= Len(Parts)
    /\ Part.task \in failed_replication_tasks_ids
    /\ part_idx' = part_idx + 1
    /\ NoNotify
    /\ UNCHANGED << inputvars, zfs, pc, loopvars, taskvars, raised,
                    remote_shell_open, listvars, partvars, ctxvars, attempts,
                    parts_done, plvars >>

\* lines 127-143: the contexts, TaskStart on the task's first part, and the
\* retry loop's variables
BeginPart ==
    /\ UNCHANGED sent_log
    /\ NoWrite
    /\ pc = "for_part"
    /\ part_idx <= Len(Parts)
    /\ Part.task \notin failed_replication_tasks_ids
    /\ IF Part.task \notin started_replication_tasks_ids
       THEN Notify("TaskStart", Part.task, SnapshotsSent(Part.task),
                   SnapshotsTotal(Part.task), <<>>)
       ELSE NoNotify
    /\ started_replication_tasks_ids' =
           IF Part.task \notin started_replication_tasks_ids
           THEN AddStarted(started_replication_tasks_ids, Part.task)
           ELSE started_replication_tasks_ids
    /\ recoverable_error' = NoError
    /\ recoverable_sleep' = 1
    /\ i' = 0
    /\ sleeps' = <<>>
    /\ attempts' = 0
    /\ raised' = NoException
    /\ pc' = "for_retry"
    /\ UNCHANGED << inputvars, zfs, part_idx, failed_replication_tasks_ids,
                    replication_tasks_parts_left, remote_shell_open, listvars,
                    partvars, ctxvars, parts_done, plvars >>

\* one iteration of `for i in range(replication_task.retries)` up to the
\* call of run_replication_task_part: the sleep and the backoff
BeginAttempt ==
    /\ UNCHANGED sent_log
    /\ provider_writes' = <<>>
    /\ pc = "for_retry"
    /\ i < Retries(Task)
    /\ IF recoverable_error # NoError
       THEN /\ sleeps' = Append(sleeps, recoverable_sleep)
            /\ recoverable_sleep' = Backoff(recoverable_sleep)
       ELSE /\ sleeps' = sleeps
            /\ recoverable_sleep' = 1
    /\ i' = i + 1
    /\ attempts' = attempts + 1
    /\ pc' = "check_target_type"
    /\ NoNotify
    /\ UNCHANGED << inputvars, zfs, part_idx, recoverable_error, taskvars,
                    raised, remote_shell_open, listvars, partvars, ctxvars,
                    parts_done, plvars >>

\* the loop's else clause: every iteration ended in a recoverable error
RetriesExhausted ==
    /\ UNCHANGED sent_log
    /\ NoWrite
    /\ pc = "for_retry"
    /\ i >= Retries(Task)
    /\ Notify("TaskError", Part.task, SnapshotsSent(Part.task),
              SnapshotsTotal(Part.task), recoverable_error)
    /\ failed_replication_tasks_ids' = AddFailed(failed_replication_tasks_ids, Part.task)
    /\ part_idx' = part_idx + 1
    /\ pc' = "for_part"
    /\ UNCHANGED << inputvars, zfs, loopvars, started_replication_tasks_ids,
                    replication_tasks_parts_left, raised, remote_shell_open,
                    listvars, partvars, ctxvars, attempts, parts_done, plvars >>

\* lines 172-175: run_replication_task_part returned
PartReturned ==
    /\ UNCHANGED sent_log
    /\ provider_writes' = <<>>
    /\ pc = "part_returned"
    /\ replication_tasks_parts_left' =
           [ replication_tasks_parts_left EXCEPT ![Part.task] = @ - 1 ]
    /\ IF replication_tasks_parts_left'[Part.task] = 0
       THEN Notify("TaskSuccess", Part.task, SnapshotsSent(Part.task),
                   SnapshotsTotal(Part.task), <<>>)
       ELSE NoNotify
    /\ parts_done' = parts_done \cup { part_idx }
    /\ part_idx' = part_idx + 1
    /\ raised' = NoException
    /\ pc' = "for_part"
    /\ UNCHANGED << inputvars, zfs, loopvars, started_replication_tasks_ids,
                    failed_replication_tasks_ids, remote_shell_open,
                    listvars, partvars, ctxvars, attempts, plvars >>

\* InnerExcept without remote_shell.close()
InnerExceptKeepsShell(e) ==
    CASE e.class = "socket.timeout" ->
            [ class |-> "RecoverableReplicationError",
              msg |-> << "Network connection timeout" >>, close |-> FALSE ]
      [] e.class \in { "NoValidConnectionsError", "SSHException" } ->
            [ class |-> "RecoverableReplicationError",
              msg |-> StripErrno(e.msg), close |-> FALSE ]
      [] e.class = "AuthenticationException" ->
            [ class |-> "ReplicationError",
              msg |-> StripErrno(e.msg), close |-> FALSE ]
      [] e.class = "IOError" ->
            [ class |-> "RecoverableReplicationError",
              msg |-> e.msg, close |-> FALSE ]
      [] OTHER ->
            [ class |-> e.class, msg |-> e.msg, close |-> FALSE ]

\* The inner except clauses (lines 155-171): what the exception of the part
\* becomes, and whether remote_shell.close() is called on the way.
InnerExcept(e) ==
    CASE e.class = "socket.timeout" ->
            [ class |-> "RecoverableReplicationError",
              msg |-> << "Network connection timeout" >>, close |-> FALSE ]
      [] e.class = "NoValidConnectionsError" ->
            [ class |-> "RecoverableReplicationError",
              msg |-> StripErrno(e.msg), close |-> FALSE ]
      [] e.class = "AuthenticationException" ->
            [ class |-> "ReplicationError",
              msg |-> StripErrno(e.msg), close |-> FALSE ]
      [] e.class = "SSHException" ->
            [ class |-> "RecoverableReplicationError",
              msg |-> StripErrno(e.msg), close |-> TRUE ]
      [] e.class = "IOError" ->
            [ class |-> "RecoverableReplicationError",
              msg |-> e.msg, close |-> FALSE ]
      [] OTHER ->
            [ class |-> e.class, msg |-> e.msg, close |-> FALSE ]

\* The outer except clauses (lines 176-189).
HandleException ==
    /\ UNCHANGED sent_log
    /\ provider_writes' = <<>>
    /\ pc = "except"
    /\ LET e == InnerExcept(raised)
       IN  /\ remote_shell_open' = (remote_shell_open /\ ~e.close)
           /\ IF e.class = "RecoverableReplicationError"
              THEN /\ recoverable_error' = e.msg
                   /\ pc' = "for_retry"
                   /\ NoNotify
                   /\ UNCHANGED << failed_replication_tasks_ids, part_idx >>
              ELSE /\ Notify("TaskError", Part.task, SnapshotsSent(Part.task),
                             SnapshotsTotal(Part.task), e.msg)
                   /\ failed_replication_tasks_ids' =
                          AddFailed(failed_replication_tasks_ids, Part.task)
                   /\ part_idx' = part_idx + 1
                   /\ pc' = "for_part"
                   /\ UNCHANGED recoverable_error
    /\ UNCHANGED << inputvars, zfs, i, recoverable_sleep, sleeps,
                    started_replication_tasks_ids, replication_tasks_parts_left,
                    raised, listvars, partvars, ctxvars, attempts, parts_done,
                    plvars >>

(***************************************************************************)
(* run_replication_task_part                                               *)
(***************************************************************************)
\* the locals of run_replication_task_part and of what it calls
NoLocals ==
    /\ step_templates' = <<>>
    /\ t_idx' = 1
    /\ resumed' = FALSE
    /\ plan' = <<>>
    /\ ignored_roots' = {}
    /\ s_idx' = 1
    /\ incremental_base' = None
    /\ encryption' = None
    /\ step' = NoStep

\* an exception leaves run_replication_task_part
Raise(class, msg) ==
    /\ raised' = [ class |-> class, msg |-> msg ]
    /\ pc' = "except"
    /\ NoLocals

\* check_target_type; it is also the part's first use of both shells, which
\* can fail with any exception of the shell
CheckTargetType ==
    /\ UNCHANGED sent_log
    /\ NoWrite
    /\ pc = "check_target_type"
    /\ remote_shell_open' = TRUE
    /\ LET target_dataset == GetTargetDataset(Task, Part.source_dataset)
       IN  \/ \E e \in ShellExceptions : Raise(e, Str(e))
           \/ /\ zfs[target_dataset].exists
              /\ zfs[target_dataset].type # "filesystem"
              /\ Raise("ReplicationError", << "Source is a filesystem, but target is a volume" >>)
           \/ /\ zfs[target_dataset].exists => zfs[target_dataset].type = "filesystem"
              /\ pc' = "calculate_replication_step_templates"
              /\ UNCHANGED << raised, partvars >>
    /\ NoNotify
    /\ UNCHANGED << inputvars, zfs, part_idx, loopvars, taskvars, listvars,
                    ctxvars, attempts, parts_done, plvars >>

\* calculate_replication_step_templates: what it leaves in the contexts and
\* the templates it returns
StepTemplates(task, source_dataset) ==
    LET listed == ListDatasetsWithSnapshots(source_dataset, task.recursive)
        source_datasets ==
            IF task.replicate THEN << source_dataset >>
            ELSE SelectSeq(SourceDatasets, LAMBDA d : d \in DOMAIN listed)
        replicated ==
            SelectSeq(source_datasets, LAMBDA d : ShouldReplicateDataset(task, d))
        dst == UNION { IF zfs[GetTargetDataset(task, d)].exists
                       THEN ListDestination(GetTargetDataset(task, d), task.recursive)
                       ELSE {} : d \in Range(replicated) }
    IN  [ src_datasets |-> listed,
          dst_datasets |-> Dict(dst, LAMBDA d : zfs[d].snapshots),
          dst_datasets_readonly |-> Dict(dst, LAMBDA d : zfs[d].readonly = "on"),
          dst_datasets_receive_resume_tokens |->
              Dict(dst, LAMBDA d : IF zfs[d].receive_resume_token # "-"
                                   THEN zfs[d].receive_resume_token ELSE None),
          templates |-> [ k \in 1..Len(replicated) |->
                            [ src_dataset |-> replicated[k],
                              dst_dataset |-> GetTargetDataset(task, replicated[k]) ] ] ]

\* The new templates are new keys of the counters: those of the task's former
\* templates stay in the sums, and the new ones count from 0.
NewTemplates ==
    LET t == StepTemplates(Task, Part.source_dataset)
        zero == [ d \in Range(SourceDatasets) |-> 0 ]
    IN  /\ src_datasets' = t.src_datasets
        /\ dst_datasets' = t.dst_datasets
        /\ dst_datasets_readonly' = t.dst_datasets_readonly
        /\ dst_datasets_receive_resume_tokens' = t.dst_datasets_receive_resume_tokens
        /\ step_templates' = t.templates
        /\ retired_sent' = [ retired_sent EXCEPT ![Part.task] = SnapshotsSent(Part.task) ]
        /\ retired_total' = [ retired_total EXCEPT ![Part.task] = SnapshotsTotal(Part.task) ]
        /\ snapshots_sent_by_template' =
               [ snapshots_sent_by_template EXCEPT ![Part.task] = zero ]
        /\ snapshots_total_by_template' =
               [ snapshots_total_by_template EXCEPT ![Part.task] = zero ]

CalculateReplicationStepTemplates ==
    /\ UNCHANGED sent_log
    /\ NoWrite
    /\ pc = "calculate_replication_step_templates"
    /\ NewTemplates
    /\ pc' = "destroy_empty_encrypted_target"
    /\ NoNotify
    /\ UNCHANGED << inputvars, zfs, part_idx, loopvars, taskvars, raised,
                    remote_shell_open, t_idx, resumed, plan, ignored_roots,
                    s_idx, incremental_base, encryption, step, attempts,
                    parts_done, plvars >>

\* EncryptionMismatch without the check
EncryptionMismatchUnchecked(task, properties) == FALSE

\* line 267: replication_task.encryption and properties["encryption"] == "off"
EncryptionMismatch(task, properties) ==
    task.encryption # None /\ properties.encryption = "off"

\* NotEncrypted without the check
NotEncryptedUnchecked(properties) == FALSE

\* line 277: properties["encryption"] == "off"
NotEncrypted(properties) == properties.encryption = "off"

\* destroy_empty_encrypted_target; then resume_replications begins
DestroyEmptyEncryptedTarget ==
    /\ UNCHANGED sent_log
    /\ pc = "destroy_empty_encrypted_target"
    /\ LET dst_dataset == GetTargetDataset(Task, Part.source_dataset)
           properties == zfs[dst_dataset]
           leave == /\ pc' = "resume_replications"
                    /\ t_idx' = 1
                    /\ resumed' = FALSE
                    /\ NoWrite
                    /\ UNCHANGED << zfs, raised, dst_datasets, dst_datasets_readonly,
                                    step_templates, plan, ignored_roots, s_idx,
                                    incremental_base, encryption, step >>
       IN  IF dst_dataset \notin DOMAIN dst_datasets THEN leave
           ELSE IF EncryptionMismatch(Task, properties)
           THEN /\ Raise("ReplicationError", << "Encryption requested, but destination is not encrypted" >>)
                /\ NoWrite
                /\ UNCHANGED << zfs, dst_datasets, dst_datasets_readonly >>
           ELSE IF dst_datasets[dst_dataset] # <<>> THEN leave
           ELSE IF dst_datasets_receive_resume_tokens[dst_dataset] # None THEN leave
           ELSE IF NotEncrypted(properties) THEN leave
           ELSE IF properties.own_encryptionroot
           THEN /\ Raise("ReplicationError", << "Destination is its own encryption root" >>)
                /\ NoWrite
                /\ UNCHANGED << zfs, dst_datasets, dst_datasets_readonly >>
           ELSE IF ~properties.mounted \/ properties.has_data THEN leave
           ELSE \* zfs destroy, which fails on a dataset that has children
                IF \E d \in DestinationDatasets :
                       d # dst_dataset /\ zfs[d].exists /\ IsChild(d, dst_dataset)
                THEN /\ Raise("ExecException", << "filesystem has children" >>)
                     /\ Write(<< Command("destroy", dst_dataset) >>)
                     /\ UNCHANGED << zfs, dst_datasets, dst_datasets_readonly >>
                ELSE /\ zfs' = [ zfs EXCEPT ![dst_dataset].exists = FALSE ]
                     /\ Write(<< Command("destroy", dst_dataset) >>)
                     /\ dst_datasets' = Pop(dst_datasets, dst_dataset)
                     /\ dst_datasets_readonly' = Pop(dst_datasets_readonly, dst_dataset)
                     /\ pc' = "resume_replications"
                     /\ t_idx' = 1
                     /\ resumed' = FALSE
                     /\ UNCHANGED << raised, step_templates, plan, ignored_roots,
                                     s_idx, incremental_base, encryption, step >>
    /\ NoNotify
    /\ UNCHANGED << inputvars, part_idx, loopvars, taskvars, remote_shell_open,
                    src_datasets, dst_datasets_receive_resume_tokens, ctxvars,
                    attempts, parts_done, plvars >>

(***************************************************************************)
(* ReplicationStep and run_replication_step                                *)
(***************************************************************************)
\* step_template.instantiate(...)
Instantiate(template, snapshot, base, token, recipe, observer_snapshot) ==
    [ src_dataset |-> template.src_dataset, dst_dataset |-> template.dst_dataset,
      snapshot |-> snapshot, incremental_base |-> base,
      receive_resume_token |-> token, encryption |-> recipe,
      observer_snapshot |-> IF observer_snapshot # None THEN observer_snapshot
                            ELSE snapshot ]

\* The head of run_replication_step: SnapshotStart with the counters as they
\* are then (total_by_template: snapshots_total_by_template at the call),
\* and the unmount.
StartStep(new_step, total_by_template) ==
    /\ step' = new_step
    /\ Notify("SnapshotStart", Part.task, SnapshotsSent(Part.task),
              SumSent(retired_total, total_by_template, Part.task), <<>>)
    /\ zfs' = Unmounted(zfs, new_step.dst_dataset)
    /\ Write(<< Command("umount", new_step.dst_dataset), SendCommand(new_step) >>)
    /\ pc' = "run_replication_step"

\* HandleReadonly doing nothing
HandleReadonlyIgnored(task, dst_dataset, readonly_map, pool) ==
    [ readonly_map |-> readonly_map, pool |-> pool, cmds |-> <<>> ]

\* handle_readonly: the readonly map and the pool after it
HandleReadonly(task, dst_dataset, readonly_map, pool) ==
    IF task.readonly \in { "set", "require" }
    THEN LET parent == Dirname(dst_dataset)
             inherit == /\ parent \in DOMAIN readonly_map
                        /\ dst_dataset \in DOMAIN readonly_map
                        /\ readonly_map[dst_dataset] = FALSE
             pool1 == IF inherit
                      THEN [ pool EXCEPT ![dst_dataset].readonly =
                                             InheritedReadonly(pool, dst_dataset) ]
                      ELSE pool
             map1 == [ d \in DOMAIN readonly_map \cup { dst_dataset } |->
                         IF d = dst_dataset THEN TRUE ELSE readonly_map[d] ]
             pool2 == IF ~Get(map1, parent, FALSE)
                      THEN [ pool1 EXCEPT ![dst_dataset].readonly = "on" ]
                      ELSE pool1
         IN  [ readonly_map |-> map1, pool |-> pool2,
               cmds |-> (IF inherit THEN << Command("inherit readonly", dst_dataset) >>
                         ELSE <<>>)
                        \o (IF ~Get(map1, parent, FALSE)
                            THEN << Command("set readonly=on", dst_dataset) >>
                            ELSE <<>>) ]
    ELSE [ readonly_map |-> readonly_map, pool |-> pool, cmds |-> <<>> ]

\* the progress observer of the process
SnapshotProgress ==
    /\ UNCHANGED sent_log
    /\ NoWrite
    /\ pc = "run_replication_step"
    /\ Notify("SnapshotProgress", Part.task, SnapshotsSent(Part.task),
              SnapshotsTotal(Part.task), <<>>)
    /\ UNCHANGED << inputvars, zfs, pc, part_idx, loopvars, taskvars, raised,
                    remote_shell_open, listvars, partvars, ctxvars, attempts,
                    parts_done, plvars >>

\* a receive can be resumed when the snapshot its token names is still on
\* the source and not yet on the destination
TokenUsable(src_dataset, dst_dataset, token) ==
    /\ token \in Range(src_zfs[src_dataset])
    /\ token \notin Range(zfs[dst_dataset].snapshots)

\* SentAfterStep without the increment
SentAfterStepUncounted(sent) == sent

\* line 634: snapshots_sent_by_replication_step_template[step.template] += 1
SentAfterStep(sent) == sent + 1

\* NextIncrementalBase keeping the base of the send before
NextIncrementalBaseKept(base, snapshot) == base

\* line 562: incremental_base = snapshot
NextIncrementalBase(base, snapshot) == snapshot

\* ReplicationProcessRunner(process, monitor).run() returned: the rest of
\* run_replication_step, and what its caller does with the step's success
StepSucceeds ==
    /\ pc = "run_replication_step"
    /\ step.receive_resume_token # None =>
           TokenUsable(step.src_dataset, step.dst_dataset, step.receive_resume_token)
    /\ LET src == step.src_dataset
           dst == step.dst_dataset
           resume == step.receive_resume_token # None
           pool1 == Received(zfs, dst,
                             IF resume THEN step.receive_resume_token ELSE step.snapshot,
                             step.encryption)
           sent1 == [ snapshots_sent_by_template EXCEPT
                        ![Part.task][src] = SentAfterStep(@) ]
           after == IF step.incremental_base = None
                    THEN HandleReadonly(Task, dst, dst_datasets_readonly, pool1)
                    ELSE [ readonly_map |-> dst_datasets_readonly, pool |-> pool1,
                           cmds |-> <<>> ]
       IN  /\ Write(after.cmds)
           /\ sent_log' = [ sent_log EXCEPT ![Part.task] =
                  Append(@, [ dataset |-> dst,
                              snapshot |-> IF resume THEN step.receive_resume_token
                                           ELSE step.snapshot ]) ]
           /\ Notify("SnapshotSuccess", Part.task,
                     SumSent(retired_sent, sent1, Part.task), SnapshotsTotal(Part.task), <<>>)
           /\ zfs' = after.pool
           /\ dst_datasets_readonly' = after.readonly_map
           /\ step' = NoStep
           /\ IF resume
              THEN \* resume_replications, lines 412-415
                   /\ snapshots_sent_by_template' = [ sent1 EXCEPT ![Part.task][src] = 1 ]
                   /\ snapshots_total_by_template' =
                          [ snapshots_total_by_template EXCEPT ![Part.task][src] = 1 ]
                   /\ resumed' = TRUE
                   /\ t_idx' = t_idx + 1
                   /\ pc' = "resume_replications"
                   /\ UNCHANGED << s_idx, incremental_base, encryption >>
              ELSE \* replicate_snapshots, lines 562-563
                   /\ snapshots_sent_by_template' = sent1
                   /\ incremental_base' = NextIncrementalBase(incremental_base, step.snapshot)
                   /\ encryption' = None
                   /\ s_idx' = s_idx + 1
                   /\ pc' = "replicate_snapshots"
                   /\ UNCHANGED << snapshots_total_by_template, resumed, t_idx >>
    /\ UNCHANGED << inputvars, part_idx, loopvars, taskvars, raised,
                    remote_shell_open, src_datasets, dst_datasets,
                    dst_datasets_receive_resume_tokens, step_templates, plan,
                    ignored_roots, retired_sent, retired_total, attempts,
                    parts_done, plvars >>

\* the process of a resume step failed on a token that is of no use any
\* more: resume_replications discards the token and goes on (lines 399-409)
ObsoleteTokenMessages ==
    { "used in the initial send no longer exists", "destination has snapshots" }

\* what a failing process of a resume step can print: that the snapshot of
\* the token is gone from the source, that the destination has snapshots,
\* or something else
ProcessStdout(resume_step) ==
    { "cannot receive" }
    \cup (IF resume_step.receive_resume_token \notin Range(src_zfs[resume_step.src_dataset])
          THEN { "used in the initial send no longer exists" } ELSE {})
    \cup (IF zfs[resume_step.dst_dataset].snapshots # <<>>
          THEN { "destination has snapshots" } ELSE {})

\* TokenObsolete whatever the process printed
TokenObsoleteAlways(stdout) == TRUE

\* lines 400, 405: the tests of e.stdout
TokenObsolete(stdout) == stdout \in ObsoleteTokenMessages

\* TotalAfterDiscard keeping the total of the resume
TotalAfterDiscardKept(total) == total

\* lines 404, 409: snapshots_total_by_replication_step_template[step_template] = 0
TotalAfterDiscard(total) == 0

ResumeTokenObsolete ==
    /\ UNCHANGED sent_log
    /\ Write(<< Command("recv -A", step.dst_dataset) >>)
    /\ pc = "run_replication_step"
    /\ step.receive_resume_token # None
    /\ \E stdout \in ProcessStdout(step) : TokenObsolete(stdout)
    /\ zfs' = [ zfs EXCEPT ![step.dst_dataset].receive_resume_token = "-" ]
    /\ snapshots_total_by_template' =
           [ snapshots_total_by_template EXCEPT
               ![Part.task][step.src_dataset] = TotalAfterDiscard(@) ]
    /\ t_idx' = t_idx + 1
    /\ step' = NoStep
    /\ pc' = "resume_replications"
    /\ NoNotify
    /\ UNCHANGED << inputvars, part_idx, loopvars, taskvars, raised,
                    remote_shell_open, listvars, step_templates, resumed, plan,
                    ignored_roots, s_idx, incremental_base, encryption,
                    retired_sent, retired_total, snapshots_sent_by_template,
                    attempts, parts_done, plvars >>

\* the process failed otherwise: the exception leaves the part
StepFails ==
    /\ UNCHANGED sent_log
    /\ NoWrite
    /\ pc = "run_replication_step"
    /\ \E e \in ShellExceptions : Raise(e, Str(e))
    /\ NoNotify
    /\ UNCHANGED << inputvars, zfs, part_idx, loopvars, taskvars,
                    remote_shell_open, listvars, ctxvars, attempts, parts_done,
                    plvars >>

(***************************************************************************)
(* resume_replications                                                     *)
(***************************************************************************)
HasReceiveResumeToken(template) ==
    /\ template.dst_dataset \in DOMAIN dst_datasets
    /\ Get(dst_datasets_receive_resume_tokens, template.dst_dataset, None) # None

\* a template with nothing to resume
ResumeSkip ==
    /\ UNCHANGED sent_log
    /\ NoWrite
    /\ pc = "resume_replications"
    /\ t_idx <= Len(step_templates)
    /\ ~HasReceiveResumeToken(step_templates[t_idx])
    /\ t_idx' = t_idx + 1
    /\ NoNotify
    /\ UNCHANGED << inputvars, zfs, pc, part_idx, loopvars, taskvars, raised,
                    remote_shell_open, listvars, step_templates, resumed, plan,
                    ignored_roots, s_idx, incremental_base, encryption, step,
                    ctxvars, attempts, parts_done, plvars >>

\* a template with a token: lines 381-398, up to the process of the step
ResumeStep ==
    /\ UNCHANGED sent_log
    /\ pc = "resume_replications"
    /\ t_idx <= Len(step_templates)
    /\ HasReceiveResumeToken(step_templates[t_idx])
    /\ LET template == step_templates[t_idx]
           to_send == GetSnapshotsToSend(src_datasets[template.src_dataset],
                                         dst_datasets[template.dst_dataset],
                                         Task).snapshots_to_send
           resumed_snapshot == IF to_send # <<>> THEN to_send[1] ELSE "unknown snapshot"
       IN  /\ snapshots_total_by_template' =
                  [ snapshots_total_by_template EXCEPT ![Part.task][template.src_dataset] =
                      IF to_send # <<>> THEN Len(to_send) ELSE 1 ]
           /\ StartStep(Instantiate(template, None, None,
                                    dst_datasets_receive_resume_tokens[template.dst_dataset],
                                    None, resumed_snapshot),
                        snapshots_total_by_template')
    /\ UNCHANGED << inputvars, part_idx, loopvars, taskvars, raised,
                    remote_shell_open, listvars, step_templates, t_idx, resumed,
                    plan, ignored_roots, s_idx, incremental_base, encryption,
                    retired_sent, retired_total, snapshots_sent_by_template,
                    attempts, parts_done, plvars >>

\* TemplatesOutdated whatever was resumed
TemplatesOutdatedNever(was_resumed) == FALSE

\* line 231: if resumed
TemplatesOutdated(was_resumed) == was_resumed

\* resume_replications returns; run_replication_task_part calculates the
\* templates again if a step was resumed (lines 231-233)
ResumeDone ==
    /\ UNCHANGED sent_log
    /\ NoWrite
    /\ pc = "resume_replications"
    /\ t_idx > Len(step_templates)
    /\ IF TemplatesOutdated(resumed) THEN NewTemplates
       ELSE UNCHANGED << listvars, step_templates, ctxvars >>
    /\ pc' = "run_replication_steps"
    /\ NoNotify
    /\ UNCHANGED << inputvars, zfs, part_idx, loopvars, taskvars, raised,
                    remote_shell_open, t_idx, resumed, plan, ignored_roots,
                    s_idx, incremental_base, encryption, step, attempts,
                    parts_done, plvars >>

(***************************************************************************)
(* run_replication_steps                                                   *)
(***************************************************************************)
\* lines 421-427: the check of readonly=REQUIRE over every template
RequireReadonly ==
    /\ UNCHANGED sent_log
    /\ NoWrite
    /\ pc = "run_replication_steps"
    /\ IF \E k \in 1..Len(step_templates) :
              /\ Task.readonly = "require"
              /\ ~Get(dst_datasets_readonly, step_templates[k].dst_dataset, TRUE)
       THEN Raise("ReplicationError", << "Refusing to replicate" >>)
       ELSE /\ pc' = "plan"
            /\ t_idx' = 1
            /\ plan' = <<>>
            /\ ignored_roots' = {}
            /\ UNCHANGED << raised, step_templates, resumed, s_idx,
                            incremental_base, encryption, step >>
    /\ NoNotify
    /\ UNCHANGED << inputvars, zfs, part_idx, loopvars, taskvars,
                    remote_shell_open, listvars, ctxvars, attempts, parts_done,
                    plvars >>

\* IsIgnored with no root to ignore
IsIgnoredNever(template) == FALSE

\* lines 434-439: the template's source dataset is under an ignored root
IsIgnored(template) ==
    \E ignored_root \in ignored_roots : IsChild(template.src_dataset, ignored_root)

\* lines 435-441: a template under an ignored root
PlanIgnored ==
    /\ UNCHANGED sent_log
    /\ NoWrite
    /\ pc = "plan"
    /\ t_idx <= Len(step_templates)
    /\ IsIgnored(step_templates[t_idx])
    /\ t_idx' = t_idx + 1
    /\ NoNotify
    /\ UNCHANGED << inputvars, zfs, pc, part_idx, loopvars, taskvars, raised,
                    remote_shell_open, listvars, step_templates, resumed, plan,
                    ignored_roots, s_idx, incremental_base, encryption, step,
                    ctxvars, attempts, parts_done, plvars >>

\* ensure_has_no_data: whether it raises for the dataset
HasUnexpectedData(dataset) ==
    zfs[dataset].exists /\ zfs[dataset].mounted /\ zfs[dataset].has_data

\* PlanEncryption handing the recipe to every template
PlanEncryptionAlways(task, is_immediate_target_dataset, exists) == task.encryption

\* lines 502-504: the encryption of a template's plan entry
PlanEncryption(task, is_immediate_target_dataset, exists) ==
    IF is_immediate_target_dataset /\ ~exists THEN task.encryption ELSE None

\* TotalAfterPlan leaving the total as it was
TotalAfterPlanUncounted(total, snapshots) == total

\* line 506: snapshots_total_by_replication_step_template[step_template] += len(snapshots)
TotalAfterPlan(total, snapshots) == total + Len(snapshots)

\* SnapshotsToDestroy taking the names that a naming schema matches only
SnapshotsToDestroyOfSchemas(dst_snapshots) ==
    SelectSeq(dst_snapshots, LAMBDA name : \E e \in ParseTable : e[1] = name)

\* line 457: [Snapshot(step_template.dst_dataset, name) for name in dst_snapshots]
SnapshotsToDestroy(dst_snapshots) == dst_snapshots

\* FromScratchAllowed whatever the task says
FromScratchAlwaysAllowed(task) == TRUE

\* lines 450, 465: step_template.replication_task.allow_from_scratch
FromScratchAllowed(task) == task.allow_from_scratch

\* lines 443-507: one template of the planning loop
PlanTemplate ==
    /\ UNCHANGED sent_log
    /\ pc = "plan"
    /\ t_idx <= Len(step_templates)
    /\ ~IsIgnored(step_templates[t_idx])
    /\ \E got \in { GetSnapshotsToSend(
                         src_datasets[step_templates[t_idx].src_dataset],
                         Get(dst_datasets, step_templates[t_idx].dst_dataset, <<>>),
                         Task) } :
       LET template == step_templates[t_idx]
           is_immediate_target_dataset == t_idx = 1
           src_snapshots == src_datasets[template.src_dataset]
           dst_snapshots == Get(dst_datasets, template.dst_dataset, <<>>)
           snapshots == got.snapshots_to_send
           no_base == got.incremental_base = None
           exists == template.dst_dataset \in DOMAIN dst_datasets
           parent == Dirname(template.dst_dataset)
           \* destroy_snapshots of every destination snapshot
           destroyed ==
               [ zfs EXCEPT ![template.dst_dataset].snapshots =
                   SelectSeq(@, LAMBDA name :
                                  name \notin Range(SnapshotsToDestroy(dst_snapshots))) ]
           \* create_dataset(parent)
           created(pool) ==
               IF is_immediate_target_dataset /\ ~exists /\ Len(parent) >= 2
                  /\ parent \in DOMAIN pool
               THEN [ pool EXCEPT ![parent].exists = TRUE ]
               ELSE pool
           pool1 == IF no_base /\ dst_snapshots # <<>> THEN destroyed ELSE zfs
           destroy_cmds ==
               IF no_base /\ dst_snapshots # <<>>
               THEN << [ Command("destroy snapshots", template.dst_dataset)
                           EXCEPT !.snapshot = SnapshotsToDestroy(dst_snapshots) ] >>
               ELSE <<>>
           create_cmds ==
               IF is_immediate_target_dataset /\ ~exists /\ Len(parent) >= 2
               THEN << Command("create", parent) >>
               ELSE <<>>
       IN  IF no_base /\ dst_snapshots # <<>> /\ ~FromScratchAllowed(Task)
           THEN /\ Raise("NoIncrementalBaseReplicationError",
                         << "No incremental base and replication from scratch is not allowed" >>)
                /\ NoWrite
                /\ UNCHANGED << zfs, ctxvars >>
           ELSE IF /\ no_base /\ dst_snapshots = <<>> /\ ~FromScratchAllowed(Task)
                   /\ is_immediate_target_dataset
                   /\ HasUnexpectedData(template.dst_dataset)
           THEN /\ Raise("ReplicationError", << "Target dataset has data but no snapshots" >>)
                /\ NoWrite
                /\ UNCHANGED << zfs, ctxvars >>
           ELSE IF snapshots = <<>>
           THEN /\ ignored_roots' = IF src_snapshots = <<>>
                                    THEN ignored_roots \cup { template.src_dataset }
                                    ELSE ignored_roots
                /\ zfs' = pool1
                /\ Write(destroy_cmds)
                /\ t_idx' = t_idx + 1
                /\ UNCHANGED << pc, raised, step_templates, resumed, plan, s_idx,
                                incremental_base, encryption, step, ctxvars >>
           ELSE /\ zfs' = created(pool1)
                /\ Write(destroy_cmds \o create_cmds)
                /\ snapshots_total_by_template' =
                       [ snapshots_total_by_template EXCEPT
                           ![Part.task][template.src_dataset] = TotalAfterPlan(@, snapshots) ]
                /\ plan' = Append(plan,
                       [ template |-> template,
                         incremental_base |-> got.incremental_base,
                         snapshots |-> snapshots,
                         encryption |-> PlanEncryption(Task, is_immediate_target_dataset,
                                                       exists) ])
                /\ t_idx' = t_idx + 1
                /\ UNCHANGED << pc, raised, step_templates, resumed, ignored_roots,
                                s_idx, incremental_base, encryption, step,
                                retired_sent, retired_total,
                                snapshots_sent_by_template >>
    /\ NoNotify
    /\ UNCHANGED << inputvars, part_idx, loopvars, taskvars, remote_shell_open,
                    listvars, attempts, parts_done, plvars >>

\* what `for ... in plan` does next: replicate_snapshots of the plan's first
\* entry, or, the plan done, the return of run_replication_task_part
EnterPlan(rest) ==
    IF rest = <<>>
    THEN /\ pc' = "part_returned"
         /\ NoLocals
    ELSE /\ pc' = "replicate_snapshots"
         /\ plan' = rest
         /\ s_idx' = 1
         /\ incremental_base' = Head(rest).incremental_base
         /\ encryption' = Head(rest).encryption
         /\ UNCHANGED << step_templates, t_idx, resumed, ignored_roots, step >>

\* the planning loop is over
PlanDone ==
    /\ UNCHANGED sent_log
    /\ NoWrite
    /\ pc = "plan"
    /\ t_idx > Len(step_templates)
    /\ EnterPlan(plan)
    /\ NoNotify
    /\ UNCHANGED << inputvars, zfs, part_idx, loopvars, taskvars, raised,
                    remote_shell_open, listvars, ctxvars, attempts, parts_done,
                    plvars >>

(***************************************************************************)
(* replicate_snapshots                                                     *)
(***************************************************************************)
\* lines 559-561: the next snapshot of the template, up to the process
ReplicateSnapshot ==
    /\ UNCHANGED sent_log
    /\ pc = "replicate_snapshots"
    /\ s_idx <= Len(Head(plan).snapshots)
    /\ StartStep(Instantiate(Head(plan).template, Head(plan).snapshots[s_idx],
                             incremental_base, None, encryption, None),
                 snapshots_total_by_template)
    /\ UNCHANGED << inputvars, part_idx, loopvars, taskvars, raised,
                    remote_shell_open, listvars, step_templates, t_idx, resumed,
                    plan, ignored_roots, s_idx, incremental_base, encryption,
                    ctxvars, attempts, parts_done, plvars >>

\* replicate_snapshots returned: handle_readonly (line 511), then the plan's
\* next entry
TemplateReplicated ==
    /\ UNCHANGED sent_log
    /\ pc = "replicate_snapshots"
    /\ s_idx > Len(Head(plan).snapshots)
    /\ LET after == HandleReadonly(Task, Head(plan).template.dst_dataset,
                                   dst_datasets_readonly, zfs)
       IN  /\ zfs' = after.pool
           /\ dst_datasets_readonly' = after.readonly_map
           /\ Write(after.cmds)
    /\ EnterPlan(Tail(plan))
    /\ NoNotify
    /\ UNCHANGED << inputvars, part_idx, loopvars, taskvars, raised,
                    remote_shell_open, src_datasets, dst_datasets,
                    dst_datasets_receive_resume_tokens, ctxvars, attempts,
                    parts_done, plvars >>

\* DatasetSizeObserver notifies while the with block runs
DataProgress ==
    /\ UNCHANGED sent_log
    /\ NoWrite
    /\ pc \in { "resume_replications", "run_replication_step",
                "run_replication_steps", "plan", "replicate_snapshots" }
    /\ Notify("DataProgress", Part.task, SnapshotsSent(Part.task),
              SnapshotsTotal(Part.task), <<>>)
    /\ UNCHANGED << inputvars, zfs, pc, part_idx, loopvars, taskvars, raised,
                    remote_shell_open, listvars, partvars, ctxvars, attempts,
                    parts_done, plvars >>

(***************************************************************************)
(* The runs of the model: the tasks and the pools run_replication_tasks    *)
(* starts from.                                                            *)
(***************************************************************************)
Absent ==
    [ exists |-> FALSE, snapshots |-> <<>>, readonly |-> "off",
      receive_resume_token |-> "-", encryption |-> "off",
      own_encryptionroot |-> FALSE, mounted |-> FALSE, has_data |-> FALSE,
      type |-> "filesystem" ]

Holding(snapshots) ==
    [ Absent EXCEPT !.exists = TRUE, !.snapshots = snapshots, !.mounted = TRUE,
                    !.has_data = TRUE ]

Encrypted(snapshots) ==
    [ Holding(snapshots) EXCEPT !.encryption = "on", !.has_data = snapshots # <<>> ]

\* the destination pool with these states of T/a, T/a/b and U (T/c is absent)
Pool(ta, tab, u) ==
    [ d \in DestinationDatasets |->
        CASE d = <<"T", "a">>      -> ta
          [] d = <<"T", "a", "b">> -> tab
          [] d = <<"U">>           -> u
          [] OTHER                 -> Absent ]

\* the source pool: a and a/b hold s1 and s2, c holds s1
SourcePool ==
    [ d \in Range(SourceDatasets) |->
        IF d = <<"c">> THEN << "s1" >> ELSE << "s1", "s2" >> ]

\* t1 with the given readonly behaviour, allow_from_scratch and encryption
T1(readonly, allow_from_scratch, recipe) ==
    [ BaseTask EXCEPT !.readonly = readonly,
                      !.allow_from_scratch = allow_from_scratch,
                      !.encryption = recipe ]

Run(tasks, source, pool) == [ tasks |-> tasks, source |-> source, pool |-> pool ]

Plain == << OnePartTask, T1("ignore", FALSE, None) >>

\* nothing on the destination yet
FirstRun == Run(Plain, SourcePool, Pool(Absent, Absent, Absent))

\* the same, with readonly=SET and an encryption recipe
FirstEncryptedRun ==
    Run(<< OnePartTask, T1("set", FALSE, "recipe") >>, SourcePool,
        Pool(Absent, Absent, Absent))

\* an interrupted receive of s2 to resume
ResumeRun ==
    Run(<< OnePartTask, T1("set", FALSE, None) >>, SourcePool,
        Pool([ Holding(<< "s1" >>) EXCEPT !.receive_resume_token = "s2" ],
             Holding(<< "s1", "s2" >>), Holding(<< "s1" >>)))

\* an interrupted receive of a snapshot that is gone from the source
ObsoleteTokenRun ==
    Run(Plain, SourcePool,
        Pool([ Holding(<< "s1" >>) EXCEPT !.receive_resume_token = "s0" ],
             Holding(<< "s1", "s2" >>), Holding(<< "s1", "s2" >>)))

\* two interrupted receives: one of a snapshot that is gone from the source,
\* into T/a, and one of s2, into T/a/b
TwoTokensRun ==
    Run(Plain, SourcePool,
        Pool([ Holding(<< "s1" >>) EXCEPT !.receive_resume_token = "s0" ],
             [ Holding(<< "s1" >>) EXCEPT !.receive_resume_token = "s2" ],
             Holding(<< "s1", "s2" >>)))

\* no snapshot in common, with and without allow_from_scratch
FromScratchRun ==
    Run(<< OnePartTask, T1("ignore", TRUE, None) >>, SourcePool,
        Pool(Holding(<< "x" >>), Absent, Holding(<< "s1", "s2" >>)))

\* allow_from_scratch, a source dataset a without snapshots and a target T/a
\* that holds s1
FromScratchEmptySourceRun ==
    Run(<< OnePartTask, T1("ignore", TRUE, None) >>,
        [ SourcePool EXCEPT ![<<"a">>] = <<>> ],
        Pool(Holding(<< "s1" >>), Absent, Absent))

NoIncrementalBaseRun ==
    Run(Plain, SourcePool,
        Pool(Holding(<< "x" >>), Absent, Holding(<< "s1", "s2" >>)))

\* an interrupted receive of s1, the first snapshot of T/a, with s2 to send
\* after it; T/a/b and U are up to date
ResumeFirstRun ==
    Run(Plain, SourcePool,
        Pool([ Holding(<<>>) EXCEPT !.receive_resume_token = "s1" ],
             Holding(<< "s1", "s2" >>), Holding(<< "s1", "s2" >>)))

\* readonly=SET, a target T/a that is up to date and a T/a/b that lacks s2,
\* both with readonly=off
ReadonlyChildRun ==
    Run(<< OnePartTask, T1("set", FALSE, None) >>, SourcePool,
        Pool(Holding(<< "s1", "s2" >>), Holding(<< "s1" >>), Holding(<< "s1", "s2" >>)))

\* readonly=REQUIRE, violated and satisfied
RequireViolatedRun ==
    Run(<< OnePartTask, T1("require", FALSE, None) >>, SourcePool,
        Pool(Holding(<< "s1" >>), Absent, Holding(<< "s1", "s2" >>)))

RequireSatisfiedRun ==
    Run(<< OnePartTask, T1("require", FALSE, None) >>, SourcePool,
        Pool([ Holding(<< "s1" >>) EXCEPT !.readonly = "on" ], Absent,
             Holding(<< "s1", "s2" >>)))

\* readonly=REQUIRE violated by a target with an interrupted receive of s2
RequireResumeRun ==
    Run(<< OnePartTask, T1("require", FALSE, None) >>, SourcePool,
        Pool([ Holding(<< "s1" >>) EXCEPT !.receive_resume_token = "s2" ],
             Absent, Holding(<< "s1", "s2" >>)))

\* encryption: a target that is not encrypted, an empty encrypted one, one
\* that is its own encryption root
NotEncryptedRun ==
    Run(<< OnePartTask, T1("ignore", FALSE, "recipe") >>, SourcePool,
        Pool(Holding(<< "s1" >>), Absent, Holding(<< "s1", "s2" >>)))

EmptyEncryptedRun ==
    Run(<< OnePartTask, T1("ignore", TRUE, "recipe") >>, SourcePool,
        Pool(Encrypted(<<>>), Absent, Holding(<< "s1", "s2" >>)))

OwnEncryptionRootRun ==
    Run(Plain, SourcePool,
        Pool([ Encrypted(<<>>) EXCEPT !.own_encryptionroot = TRUE ], Absent,
             Holding(<< "s1", "s2" >>)))

\* a source dataset without snapshots
EmptySourceRun ==
    Run(Plain, [ SourcePool EXCEPT ![<<"a">>] = <<>> ], Pool(Absent, Absent, Absent))

\* the same for readonly=REQUIRE and a target T/a that exists, empty, with
\* readonly=off
EmptyRequireRun ==
    Run(<< OnePartTask, T1("require", FALSE, None) >>,
        [ SourcePool EXCEPT ![<<"a">>] = <<>> ],
        Pool([ Absent EXCEPT !.exists = TRUE, !.mounted = TRUE ], Absent, Absent))

\* a target of another type, and many retries for t2
ManyRetriesRun ==
    Run(<< [ OnePartTask EXCEPT !.retries = RetriesLong ], T1("ignore", FALSE, None) >>,
        SourcePool,
        Pool([ Holding(<< "s1" >>) EXCEPT !.type = "volume" ], Absent,
             Holding(<< "s1" >>)))

Runs ==
    { FirstRun, FirstEncryptedRun, ResumeRun, ObsoleteTokenRun, FromScratchRun,
      NoIncrementalBaseRun, RequireViolatedRun, RequireSatisfiedRun,
      RequireResumeRun, TwoTokensRun,
      NotEncryptedRun, EmptyEncryptedRun, OwnEncryptionRootRun, EmptySourceRun,
      EmptyRequireRun, ResumeFirstRun, ReadonlyChildRun,
      FromScratchEmptySourceRun,
      ManyRetriesRun }

\* the runs termination is checked on: all but the longest
FairRuns ==
    Runs \ { FirstRun, FirstEncryptedRun, FromScratchRun, ResumeFirstRun,
             ReadonlyChildRun, FromScratchEmptySourceRun }

RunnerInitFrom(run) ==
    /\ replication_tasks = run.tasks
    /\ replication_tasks_parts = CalculateReplicationTasksParts(run.tasks)
    /\ src_zfs = run.source
    /\ zfs = run.pool
    /\ pc = "for_part"
    /\ part_idx = 1
    /\ i = 0
    /\ recoverable_error = NoError
    /\ recoverable_sleep = 1
    /\ started_replication_tasks_ids = {}
    /\ failed_replication_tasks_ids = {}
    /\ replication_tasks_parts_left = [ t \in TaskIds |-> PartsOf(t) ]
    /\ raised = NoException
    /\ remote_shell_open = TRUE
    /\ src_datasets = <<>>
    /\ dst_datasets = <<>>
    /\ dst_datasets_readonly = <<>>
    /\ dst_datasets_receive_resume_tokens = <<>>
    /\ step_templates = <<>>
    /\ t_idx = 1
    /\ resumed = FALSE
    /\ plan = <<>>
    /\ ignored_roots = {}
    /\ s_idx = 1
    /\ incremental_base = None
    /\ encryption = None
    /\ step = NoStep
    /\ retired_sent = [ t \in TaskIds |-> 0 ]
    /\ retired_total = [ t \in TaskIds |-> 0 ]
    /\ snapshots_sent_by_template = [ t \in TaskIds |-> [ d \in Range(SourceDatasets) |-> 0 ] ]
    /\ snapshots_total_by_template = [ t \in TaskIds |-> [ d \in Range(SourceDatasets) |-> 0 ] ]
    /\ events = [ t \in TaskIds |-> [ start |-> 0, success |-> 0, error |-> 0, early |-> FALSE,
                                  terminal |-> FALSE ] ]
    /\ last_event = NoEvent
    /\ sleeps = <<>>
    /\ attempts = 0
    /\ parts_done = {}
    /\ sent_log = [ t \in TaskIds |-> <<>> ]
    /\ provider_writes = <<>>

RunnerInit(runs) ==
    \E run \in runs : RunnerInitFrom(run)

PlannerTasks ==
    [ naming_schemas : { <<"A">>, <<"B">>, <<"A", "B">> },
      restrict : { {}, {2} },
      retention : { [ kind |-> "none", period |-> 0 ],
                    [ kind |-> "custom", period |-> 0 ],
                    [ kind |-> "custom", period |-> 1 ] } ]

InitOf(runs) ==
    /\ RunnerInit(runs)
    /\ pl_src = <<>>
    /\ pl_dst = <<>>
    /\ pl_task = [ naming_schemas |-> <<"A">>, restrict |-> {},
                   retention |-> [ kind |-> "none", period |-> 0 ] ]
    /\ pl_done = TRUE
    /\ pl_result = GetSnapshotsToSend(pl_src, pl_dst, pl_task)

Init == InitOf(Runs)

FairInit == InitOf(FairRuns)

\* every step of the runner itself
Advance ==
    \/ Return
    \/ SkipPartOfFailedTask
    \/ BeginPart
    \/ BeginAttempt
    \/ RetriesExhausted
    \/ PartReturned
    \/ HandleException
    \/ CheckTargetType
    \/ CalculateReplicationStepTemplates
    \/ DestroyEmptyEncryptedTarget
    \/ ResumeSkip
    \/ ResumeStep
    \/ ResumeDone
    \/ StepSucceeds
    \/ ResumeTokenObsolete
    \/ StepFails
    \/ RequireReadonly
    \/ PlanIgnored
    \/ PlanTemplate
    \/ PlanDone
    \/ ReplicateSnapshot
    \/ TemplateReplicated

Next ==
    \/ Advance
    \/ SnapshotProgress
    \/ DataProgress

Spec == Init /\ [][Next]_vars

\* Every call the runner makes returns or raises: the runner is never stuck
\* in a step, whatever the progress observers report meanwhile.
FairSpec == FairInit /\ [][Next]_vars /\ WF_vars(Advance)

(***************************************************************************)
(* The planner on its own: inputs drawn at Init, one action applying it.   *)
(***************************************************************************)
PlannerInit ==
    /\ pl_src \in SubSeqs(AllSnapshots, MaxSnaps)
    /\ pl_dst \in SubSeqs(AllSnapshots, MaxSnaps)
    /\ pl_task \in PlannerTasks
    /\ pl_done = FALSE
    /\ pl_result = GetSnapshotsToSend(<<>>, <<>>, pl_task)
    /\ RunnerInitFrom(FirstRun)

PlannerCall ==
    /\ ~pl_done
    /\ pl_done' = TRUE
    /\ pl_result' = GetSnapshotsToSend(pl_src, pl_dst, pl_task)
    /\ UNCHANGED << pl_src, pl_dst, pl_task, rvars >>

PlannerSpec == PlannerInit /\ [][PlannerCall]_vars


(***************************************************************************)
(* Properties of run_replication_tasks.                                    *)
(***************************************************************************)
\* a part is in its retry loop
InPart == pc \notin { "for_part", "done" }

\* the except clauses take e for a recoverable error
Recoverable(e) == InnerExcept(e).class = "RecoverableReplicationError"

SnapshotEvents == { "SnapshotStart", "SnapshotProgress", "SnapshotSuccess" }

RECURSIVE Pow2(_)
Pow2(k) == IF k = 0 THEN 1 ELSE 2 * Pow2(k - 1)

\* C1: a task has its TaskSuccess only when every part of it has returned
\* normally: the task has not failed, no part of it is running or still to
\* run, and the task's TaskSuccess is the last event of the task (no snapshot
\* of it is sent afterwards).
TaskSuccessAfterEveryPart ==
    \A t \in TaskIds :
        events[t].success > 0 =>
            /\ \A k \in 1..Len(Parts) : Parts[k].task = t => k \in parts_done
            /\ t \notin failed_replication_tasks_ids
            /\ events[t].error = 0
            /\ InPart => Part.task # t
            /\ last_event.task = t => last_event.type = "TaskSuccess"

\* t1, the task with two parts, succeeded after the sends of both parts
TaskSuccessOfTwoParts ==
    /\ last_event.type = "TaskSuccess"
    /\ last_event.task = "t1"
    /\ last_event.sent >= 3
    /\ \A k \in 1..Len(Parts) : Parts[k].task = "t1" => k \in parts_done

\* C2: run_replication_tasks returns, and then every task that has a part
\* has notified exactly one TaskStart, before every other event of the task,
\* and exactly one of TaskSuccess and TaskError, once; at no time has a task
\* two TaskStart, two TaskError, or both a TaskSuccess and a TaskError.
ReturnsWithOneOutcomePerTask ==
    /\ <>(pc = "done")
    /\ [](\A t \in TaskIds :
            /\ events[t].start <= 1
            /\ ~events[t].early
            /\ events[t].success + events[t].error <= 1)
    /\ [](pc = "done" =>
            \A t \in TaskIds :
                (\E k \in 1..Len(Parts) : Parts[k].task = t) =>
                    /\ events[t].start = 1
                    /\ events[t].success + events[t].error = 1)

\* the run returned with one task failed and the other successful
ReturnedWithBothOutcomes ==
    /\ pc = "done"
    /\ events["t1"].error = 1 /\ events["t1"].success = 0
    /\ events["t2"].success = 1 /\ events["t2"].error = 0
    /\ 1 \in parts_done

\* C3: a part is attempted at most task.retries times; an attempt after the
\* first follows an attempt that ended in a recoverable error; and when
\* task.retries attempts ended in recoverable errors, TaskError with the
\* message of the last of them is notified and the task is marked failed.
AttemptsBoundedByRetries ==
    /\ [](InPart => attempts <= Task.retries)
    /\ [](InPart /\ pc \notin { "for_retry", "except" } /\ attempts > 1 =>
            Recoverable(raised))
    /\ [][ (pc = "for_retry" /\ attempts >= Task.retries) =>
             /\ Recoverable(raised)
             /\ last_event'.type = "TaskError"
             /\ last_event'.task = Part.task
             /\ last_event'.msg = InnerExcept(raised).msg
             /\ Part.task \in failed_replication_tasks_ids'
             /\ attempts' = attempts
             /\ pc' = "for_part" ]_vars

\* TaskError after the last of task.retries attempts failed recoverably
TaskErrorAfterLastRetry ==
    /\ pc = "for_part"
    /\ last_event.type = "TaskError"
    /\ Recoverable(raised)
    /\ last_event.msg = << "Network connection timeout" >>
    /\ attempts = TaskById(last_event.task).retries
    /\ attempts >= 2

\* C4: when an attempt raises an exception that is not recoverable, TaskError
\* is notified for the task, the task is marked failed and the loop goes on to
\* the next part (parts are never gone back to); no part of a failed task is
\* run; and when the run returns, every part of a task that has not failed
\* has been run to its end.
TerminalErrorFailsTheTask ==
    /\ [][ (pc = "except" /\ ~Recoverable(raised)) =>
             /\ last_event'.type = "TaskError"
             /\ last_event'.task = Part.task
             /\ last_event'.msg = InnerExcept(raised).msg
             /\ Part.task \in failed_replication_tasks_ids'
             /\ part_idx' = part_idx + 1
             /\ pc' = "for_part" ]_vars
    /\ [][ part_idx' >= part_idx ]_vars
    /\ [](InPart => Part.task \notin failed_replication_tasks_ids)
    /\ [](pc = "done" =>
            \A k \in 1..Len(Parts) :
                k \in parts_done \/ Parts[k].task \in failed_replication_tasks_ids)

\* t1 failed in its first part on a terminal error, its second part (the
\* third of the run) was skipped, and the part of t2 between them was run
OtherTaskRunsAfterTerminalError ==
    /\ pc = "done"
    /\ events["t1"].terminal
    /\ parts_done = { 2 }
    /\ Parts[2].task = "t2"
    /\ events["t2"].success = 1

BackoffDoublesUpTo60 ==
    /\ Len(sleeps) = IF attempts = 0 THEN 0 ELSE attempts - 1
    /\ \A k \in 1..Len(sleeps) : sleeps[k] = Min(Pow2(k - 1), 60)

\* the backoff of the second part of the run has reached the cap
BackoffReachedCap ==
    /\ part_idx = 2
    /\ Len(sleeps) >= 7
    /\ sleeps[1] = 1 /\ sleeps[6] = 32 /\ sleeps[7] = 60
    /\ events["t1"].error = 1

\* C7: at every SnapshotStart, SnapshotProgress, SnapshotSuccess, TaskSuccess
\* and TaskError of a task, the task's snapshots_sent is at most its
\* snapshots_total.
SentAtMostTotal ==
    last_event.type \in SnapshotEvents \cup { "TaskSuccess", "TaskError" } =>
        last_event.sent <= last_event.total

\* a snapshot was sent in a second attempt, after sends of the first
SentInSecondAttempt ==
    /\ last_event.type = "SnapshotSuccess"
    /\ attempts = 2
    /\ last_event.sent >= 2

\* C8: at TaskSuccess of a task, the task's snapshots_sent equals its
\* snapshots_total.
SentEqualsTotalAtTaskSuccess ==
    last_event.type = "TaskSuccess" => last_event.sent = last_event.total

\* C9: every step constructed has exactly one of snapshot and
\* receive_resume_token; a step with a token has no incremental base; a step
\* with an encryption recipe has neither an incremental base nor a token.
StepAssertionsHold ==
    step # NoStep =>
        /\ (step.snapshot = None) # (step.receive_resume_token = None)
        /\ step.receive_resume_token # None => step.incremental_base = None
        /\ step.encryption # None =>
               /\ step.incremental_base = None
               /\ step.receive_resume_token = None

\* a step of a second attempt, for a task with an encryption recipe, that
\* sends incrementally
IncrementalStepOfEncryptedTask ==
    /\ step # NoStep
    /\ Task.encryption # None
    /\ step.incremental_base # None
    /\ attempts = 2

(***************************************************************************)
(* Properties of get_snapshots_to_send.                                    *)
(***************************************************************************)
\* C10: the send list is strictly ascending under the (datetime, name) key;
\* it holds only source snapshots that are newer than the incremental base
\* (any, when there is no base) and that the task replicates; and none that
\* the retention policy deletes at the datetime of the newest source
\* snapshot, asked about the candidates.
SendListAscendingNewerAndRetained ==
    pl_done =>
        LET naming_schemas == ReplicationTaskNamingSchemas(pl_task)
            parsed_src == ParseSnapshotsNamesWithMultipleSchemas(pl_src, naming_schemas)
            base == pl_result.parsed_base
            to_send == pl_result.parsed_to_send
            candidates == CandidatesToSend(pl_task, parsed_src, base)
            ref_time == IF parsed_src = <<>> THEN DatetimeMax
                        ELSE SetMax({ p.datetime : p \in Range(parsed_src) })
        IN  /\ \A k \in 1..(Len(to_send) - 1) : KeyLess(to_send[k], to_send[k + 1])
            /\ \A p \in Range(to_send) :
                   /\ p \in Range(parsed_src)
                   /\ base # NoParsed => KeyLess(base, p)
                   /\ ShouldReplicateParsedSnapshot(pl_task, p)
                   /\ p \notin CalculateDeleteSnapshots(pl_task, ref_time,
                                                        candidates, candidates)

\* C11: the incremental base is the greatest, under the (datetime, name) key,
\* of the parsed snapshots that are on both the source and the destination;
\* there is no base when they share none, and then every parsed source
\* snapshot that the task replicates and the retention policy keeps is
\* returned; source [s1, s2, s3] and destination [s1, s2] give base s2 and
\* the send list [s3].
BaseIsNewestCommonSnapshot ==
    pl_done =>
        LET naming_schemas == ReplicationTaskNamingSchemas(pl_task)
            parsed_src == ParseSnapshotsNamesWithMultipleSchemas(pl_src, naming_schemas)
            parsed_dst == ParseSnapshotsNamesWithMultipleSchemas(pl_dst, naming_schemas)
            common == { p \in Range(parsed_src) : p \in Range(parsed_dst) }
            replicated == SelectSeq(parsed_src,
                                    LAMBDA p : ShouldReplicateParsedSnapshot(pl_task, p))
            ref_time == IF parsed_src = <<>> THEN DatetimeMax
                        ELSE SetMax({ p.datetime : p \in Range(parsed_src) })
            deleted == CalculateDeleteSnapshots(pl_task, ref_time, replicated, replicated)
        IN  /\ common = {} =>
                /\ pl_result.incremental_base = None
                /\ Range(pl_result.snapshots_to_send) =
                       { p.name : p \in Range(replicated) \ deleted }
            /\ common # {} =>
                \E p \in common :
                    /\ \A q \in common : KeyLeq(q, p)
                    /\ pl_result.incremental_base = p.name
            /\ (/\ pl_src = << "s1", "s2", "s3" >> /\ pl_dst = << "s1", "s2" >>
                /\ naming_schemas = << "A" >> /\ pl_task.restrict = {}
                /\ pl_task.retention.kind = "none") =>
                   /\ pl_result.incremental_base = "s2"
                   /\ pl_result.snapshots_to_send = << "s3" >>

\* the planner was given two common snapshots and found the newer as the base
BaseOfTwoCommonSnapshots ==
    /\ pl_done
    /\ pl_src = << "s1", "s2", "s3" >>
    /\ pl_dst = << "s1", "s2" >>
    /\ pl_task.naming_schemas = << "A" >>
    /\ pl_result.incremental_base = "s2"

(***************************************************************************)
(* Properties of run_replication_task_part.                                *)
(***************************************************************************)
\* an attempt of the part is in progress
InAttempt == InPart /\ pc \notin { "for_retry", "except" }

\* the destination datasets of the part's templates
PartDestinations ==
    { template.dst_dataset :
        template \in Range(StepTemplates(Task, Part.source_dataset).templates) }

\* a destination dataset of the part exists with readonly=off while the task
\* requires readonly
RequireViolated ==
    /\ InAttempt
    /\ Task.readonly = "require"
    /\ \E d \in PartDestinations : zfs[d].exists /\ zfs[d].readonly = "off"

\* C12: while task.readonly = REQUIRE and a destination dataset of the part
\* exists with readonly=off (with or without a receive_resume_token), no
\* step of the attempt issues a provider write or starts a send, and the
\* check at the head of run_replication_steps raises the terminal error.
RequireRefusesBeforeAnyWrite ==
    [][ RequireViolated =>
          /\ provider_writes' = <<>>
          /\ last_event'.type # "SnapshotStart"
          /\ pc = "run_replication_steps" =>
                 /\ pc' = "except"
                 /\ raised'.class = "ReplicationError" ]_vars

(***************************************************************************)
(* Properties of resume_replications.                                      *)
(***************************************************************************)
\* the step taken discards an obsolete token: zfs recv -A is issued
DiscardsToken ==
    /\ Len(provider_writes') = Len(provider_writes) + 1
    /\ provider_writes'[Len(provider_writes')].cmd = "recv -A"

\* what follows the failure of a resume step on an obsolete token: the token
\* is discarded from the dataset the step received into, the counters of the
\* step's template are 0, no exception leaves resume_replications, and the
\* loop over the templates goes on, before the plan is made
DiscardThenGoOn ==
    [][ DiscardsToken =>
          /\ pc = "run_replication_step" /\ step.receive_resume_token # None
          /\ provider_writes'[Len(provider_writes')].dataset = step.dst_dataset
          /\ zfs'[step.dst_dataset].receive_resume_token = "-"
          /\ snapshots_total_by_template'[Part.task][step.src_dataset] = 0
          /\ snapshots_sent_by_template'[Part.task][step.src_dataset] = 0
          /\ raised' = raised
          /\ pc' = "resume_replications"
          /\ plan' = <<>> ]_vars

\* C13 as stated: when a resume step fails on an obsolete token, the token is
\* discarded with zfs recv -A and the template's counters are zeroed before
\* the plan is made, the part goes on to the plan, and no later send of the
\* part passes a receive_resume_token.
NoTokenAfterObsoleteToken ==
    /\ DiscardThenGoOn
    /\ [](\A k \in 1..Len(provider_writes) :
            provider_writes[k].cmd = "recv -A" =>
                \A j \in (k + 1)..Len(provider_writes) :
                    provider_writes[j].cmd = "send" =>
                        provider_writes[j].receive_resume_token = None)

\* C13, amended: as above, but it is to the dataset whose token was discarded
\* that no later send of the attempt passes a receive_resume_token.
NoTokenForTheDatasetAfterObsoleteToken ==
    /\ DiscardThenGoOn
    /\ [](\A k \in 1..Len(provider_writes) :
            provider_writes[k].cmd = "recv -A" =>
                \A j \in (k + 1)..Len(provider_writes) :
                    (/\ provider_writes[j].cmd = "send"
                     /\ provider_writes[j].dataset = provider_writes[k].dataset) =>
                        provider_writes[j].receive_resume_token = None)

\* a token was discarded and a snapshot is then sent to the same dataset
SendAfterDiscardedToken ==
    /\ pc = "run_replication_step"
    /\ \E k \in 1..Len(provider_writes) :
          /\ provider_writes[k].cmd = "recv -A"
          /\ provider_writes[Len(provider_writes)].cmd = "send"
          /\ Len(provider_writes) > k
          /\ provider_writes[Len(provider_writes)].dataset = provider_writes[k].dataset
          /\ provider_writes[Len(provider_writes)].snapshot = "s2"

(***************************************************************************)
(* Properties of a part over its attempts.                                 *)
(***************************************************************************)
\* the steps of the task of the part that sent into dst_dataset so far
SentInto(dst_dataset) ==
    SelectSeq(sent_log[Part.task], LAMBDA e : e.dataset = dst_dataset)

\* C14: a step that sends a snapshot into a dataset that has received one in
\* this run (in this attempt or in an earlier one) takes the snapshot
\* received last as its incremental base, and its snapshot is not on the
\* destination yet; no snapshot is sent twice into a dataset; and the task's
\* snapshots_sent is the number of the steps that succeeded, whatever the
\* number of attempts.
RetrySendsTheRemainder ==
    /\ (pc = "run_replication_step" /\ step.snapshot # None) =>
          /\ step.snapshot \notin Range(zfs[step.dst_dataset].snapshots)
          /\ SentInto(step.dst_dataset) # <<>> =>
                 step.incremental_base =
                     SentInto(step.dst_dataset)[Len(SentInto(step.dst_dataset))].snapshot
    /\ \A t \in TaskIds :
          /\ SnapshotsSent(t) = Len(sent_log[t])
          /\ \A j, k \in 1..Len(sent_log[t]) :
                 sent_log[t][j] = sent_log[t][k] => j = k

\* the second attempt of a part sends s2 on the base s1, which the first
\* attempt sent before it failed
SecondAttemptSendsFromNewBase ==
    /\ pc = "run_replication_step"
    /\ attempts = 2
    /\ Recoverable(raised)
    /\ step.snapshot = "s2" /\ step.incremental_base = "s1"
    /\ sent_log[Part.task] = << [ dataset |-> step.dst_dataset, snapshot |-> "s1" ] >>
    /\ provider_writes[2].snapshot = "s2"

(***************************************************************************)
(* Properties of run_replication_steps.                                    *)
(***************************************************************************)
\* the template the planning loop is at
PlannedTemplate == step_templates[t_idx]

\* the planning loop is at a template that is not ignored
Planning ==
    /\ pc = "plan"
    /\ t_idx <= Len(step_templates)
    /\ ~IsIgnored(PlannedTemplate)

\* the destination snapshots the planner is given for the template
PlannedDstSnapshots == Get(dst_datasets, PlannedTemplate.dst_dataset, <<>>)

\* the planner finds no incremental base for the template, whose destination
\* has snapshots
NoBaseForDestinationWithSnapshots ==
    /\ Planning
    /\ PlannedDstSnapshots # <<>>
    /\ GetSnapshotsToSend(src_datasets[PlannedTemplate.src_dataset],
                          PlannedDstSnapshots, Task).incremental_base = None

\* the attempt has issued a command of this kind
Issued(cmd) == \E k \in 1..Len(provider_writes) : provider_writes[k].cmd = cmd

\* the attempt has started a send of a snapshot (not the resume of a receive)
SnapshotSendStarted ==
    \E k \in 1..Len(provider_writes) :
        provider_writes[k].cmd = "send" /\ provider_writes[k].snapshot # None

\* C15: when the planner finds no incremental base for a template whose
\* destination has snapshots and allow_from_scratch is false, the attempt has
\* destroyed no snapshot and started no send of a snapshot, and its next step
\* raises NoIncrementalBaseReplicationError, changing nothing on the pool;
\* the error then ends the part with TaskError: the part is not tried again.
NoBaseIsTerminal ==
    /\ []((NoBaseForDestinationWithSnapshots /\ ~Task.allow_from_scratch) =>
            /\ ~Issued("destroy snapshots")
            /\ ~SnapshotSendStarted)
    /\ [][ (NoBaseForDestinationWithSnapshots /\ ~Task.allow_from_scratch) =>
             \/ /\ pc' = "except"
                /\ raised'.class = "NoIncrementalBaseReplicationError"
                /\ UNCHANGED << zfs, provider_writes >>
             \/ UNCHANGED << pc, t_idx, zfs, provider_writes >> ]_vars
    /\ [][ (pc = "except" /\ raised.class = "NoIncrementalBaseReplicationError") =>
             /\ pc' = "for_part"
             /\ part_idx' = part_idx + 1
             /\ last_event'.type = "TaskError"
             /\ last_event'.task = Part.task
             /\ Part.task \in failed_replication_tasks_ids'
             /\ UNCHANGED << zfs, attempts >> ]_vars

\* t1 failed on the missing incremental base in its first attempt, with the
\* destination snapshot still there
FailedOnNoBaseInFirstAttempt ==
    /\ pc = "for_part"
    /\ last_event.type = "TaskError"
    /\ last_event.msg = << "No incremental base and replication from scratch is not allowed" >>
    /\ attempts = 1
    /\ TaskById(last_event.task).retries >= 2
    /\ zfs[<<"T", "a">>].snapshots = << "x" >>

\* C16: when the planner finds no incremental base for a template whose
\* destination has snapshots and allow_from_scratch is true, no send of a
\* snapshot has been started in the attempt, and the next step of the runner
\* destroys every snapshot listed for the destination dataset, whether a
\* naming schema matches its name or not, without starting a send.
FromScratchDestroysEverySnapshot ==
    /\ []((NoBaseForDestinationWithSnapshots /\ Task.allow_from_scratch) =>
            ~SnapshotSendStarted)
    /\ [][ (NoBaseForDestinationWithSnapshots /\ Task.allow_from_scratch) =>
             \/ UNCHANGED << pc, t_idx, zfs, provider_writes >>
             \/ /\ Len(provider_writes') = Len(provider_writes) + 1
                /\ provider_writes'[Len(provider_writes')].cmd = "destroy snapshots"
                /\ provider_writes'[Len(provider_writes')].dataset =
                       PlannedTemplate.dst_dataset
                /\ provider_writes'[Len(provider_writes')].snapshot = PlannedDstSnapshots
                /\ Range(zfs'[PlannedTemplate.dst_dataset].snapshots)
                       \cap Range(PlannedDstSnapshots) = {}
                /\ pc' = "plan" ]_vars

\* the snapshot x, which no schema matches, was destroyed, and then the first
\* send of the plan starts from scratch
SendAfterDestroyingUnparsedSnapshot ==
    /\ pc = "run_replication_step"
    /\ Len(provider_writes) = 3
    /\ provider_writes[1].cmd = "destroy snapshots"
    /\ provider_writes[1].snapshot = << "x" >>
    /\ provider_writes[3].cmd = "send"
    /\ provider_writes[3].incremental_base = None
    /\ zfs[provider_writes[1].dataset].snapshots = <<>>

(***************************************************************************)
(* Properties of destroy_empty_encrypted_target.                           *)
(***************************************************************************)
\* the target dataset of the part
TargetDataset == GetTargetDataset(Task, Part.source_dataset)

\* the task requests encryption and the target exists with encryption=off
EncryptionRefused ==
    /\ InAttempt
    /\ Task.encryption # None
    /\ zfs[TargetDataset].exists
    /\ zfs[TargetDataset].encryption = "off"

ReceivedInAttempt ==
    { provider_writes[k].dataset : k \in
        { j \in 1..Len(provider_writes) :
            /\ provider_writes[j].cmd = "send"
            /\ (pc = "run_replication_step" => j < Len(provider_writes))
            /\ (j < Len(provider_writes) => provider_writes[j + 1].cmd # "recv -A") } }

\* C18: when run_replication_task_part returns normally for a task with
\* readonly SET or REQUIRE, datasets_readonly of the destination context is
\* true for every destination dataset that received a snapshot in that call,
\* and the dataset is readonly on the pool.
ReadonlyAfterPart ==
    (pc = "part_returned" /\ Task.readonly \in { "set", "require" }) =>
        \A d \in ReceivedInAttempt :
            /\ Get(dst_datasets_readonly, d, FALSE)
            /\ zfs[d].readonly = "on"

\* a part of a task with readonly SET returned after it created T/a/b with an
\* initial send
ReadonlyOfCreatedDataset ==
    /\ pc = "part_returned"
    /\ Task.readonly = "set"
    /\ << "T", "a", "b" >> \in ReceivedInAttempt
    /\ \E k \in 1..Len(provider_writes) :
          /\ provider_writes[k].cmd = "send"
          /\ provider_writes[k].dataset = << "T", "a", "b" >>
          /\ provider_writes[k].incremental_base = None
          /\ provider_writes[k].receive_resume_token = None
    /\ dst_datasets_readonly[<< "T", "a", "b" >>]

(***************************************************************************)
(* Properties of the planning loop: source datasets without snapshots.     *)
(***************************************************************************)
\* the source datasets of the part's templates
PartSources ==
    { template.src_dataset :
        template \in Range(StepTemplates(Task, Part.source_dataset).templates) }

\* the destination holds neither snapshots nor data
DestinationEmpty(dst_dataset) ==
    ~zfs[dst_dataset].exists
        \/ (zfs[dst_dataset].snapshots = <<>> /\ ~zfs[dst_dataset].has_data)

\* the source datasets of the part under one without snapshots whose
\* destination is empty, and under one whose destination does not exist
UnderEmptySource ==
    { d \in PartSources : \E r \in PartSources :
        /\ IsChild(d, r)
        /\ src_zfs[r] = <<>>
        /\ DestinationEmpty(GetTargetDataset(Task, r)) }

UnderEmptySourceWithoutDestination ==
    { d \in PartSources : \E r \in PartSources :
        /\ IsChild(d, r)
        /\ src_zfs[r] = <<>>
        /\ ~zfs[GetTargetDataset(Task, r)].exists }

\* the attempt has started a replication process for the source dataset
SendStartedFor(src_dataset) ==
    \/ step.src_dataset = src_dataset
    \/ \E k \in 1..Len(provider_writes) :
          /\ provider_writes[k].cmd = "send"
          /\ provider_writes[k].dataset = GetTargetDataset(Task, src_dataset)

Replicating ==
    \/ pc = "replicate_snapshots"
    \/ pc = "run_replication_step" /\ step.receive_resume_token = None

\* the sends of snapshots (not the resumes) that the attempt has started into
\* the destination dataset, in the order they were started
SendsInto(dst_dataset) ==
    SelectSeq(provider_writes, LAMBDA w :
        /\ w.cmd = "send"
        /\ w.dataset = dst_dataset
        /\ w.receive_resume_token = None)

\* C20: while replicate_snapshots runs for an entry of the plan, the sends
\* started for its template are the first snapshots of the entry, one for
\* one and in its order, a send being started only when the one before has
\* returned; the first has the entry's incremental base and encryption, each
\* later one has the snapshot before it as its base and no encryption.
SnapshotsSentInPlanOrder ==
    Replicating =>
        LET entry == Head(plan)
            sends == SendsInto(entry.template.dst_dataset)
        IN  /\ Len(sends) = (IF pc = "run_replication_step" THEN s_idx ELSE s_idx - 1)
            /\ Len(sends) <= Len(entry.snapshots)
            /\ Len(SentInto(entry.template.dst_dataset)) >= s_idx - 1
            /\ \A k \in 1..Len(sends) :
                  /\ sends[k].snapshot = entry.snapshots[k]
                  /\ sends[k].incremental_base =
                         (IF k = 1 THEN entry.incremental_base
                          ELSE entry.snapshots[k - 1])
                  /\ sends[k].encryption =
                         (IF k = 1 THEN entry.encryption ELSE None)

\* the second send of an entry is running: s2 on the base s1, without the
\* encryption recipe that the first send, of s1 without a base, carried
SecondSendOfEncryptedTemplate ==
    /\ pc = "run_replication_step"
    /\ step.snapshot = "s2"
    /\ step.incremental_base = "s1"
    /\ step.encryption = None
    /\ Head(plan).encryption = "recipe"
    /\ Head(plan).incremental_base = None
    /\ Len(SendsInto(step.dst_dataset)) = 2
    /\ SendsInto(step.dst_dataset)[1].encryption = "recipe"

(***************************************************************************)
(* Properties of calculate_replication_tasks_parts.                        *)
(***************************************************************************)
\* the number of parts of the task with this source dataset
PartsOfPair(task, source_dataset) ==
    Cardinality({ k \in 1..Len(Parts) :
                    /\ Parts[k].task = task.id
                    /\ Parts[k].source_dataset = source_dataset })

\* C21: the parts are every (task, source_dataset) pair of every task, once
\* each, in ascending order of source_dataset and, for one source dataset,
\* the parts of recursive tasks before those of the others; the loop takes
\* them in that order, one after the other, to the last.
PartsRunInSortedOrder ==
    /\ [](/\ \A j, k \in 1..Len(Parts) : j < k =>
                \/ DatasetRank(Parts[j].source_dataset) < DatasetRank(Parts[k].source_dataset)
                \/ /\ Parts[j].source_dataset = Parts[k].source_dataset
                   /\ (Parts[k].recursive => Parts[j].recursive)
          /\ \A n \in 1..Len(replication_tasks) :
                \A m \in 1..Len(replication_tasks[n].source_datasets) :
                    PartsOfPair(replication_tasks[n], replication_tasks[n].source_datasets[m]) = 1
          /\ \A k \in 1..Len(Parts) :
                /\ Parts[k].recursive = TaskById(Parts[k].task).recursive
                /\ Parts[k].source_dataset \in Range(TaskById(Parts[k].task).source_datasets)
          /\ (pc = "done" => part_idx = Len(Parts) + 1)
          /\ (InPart => part_idx \in 1..Len(Parts)))
    /\ [][ /\ part_idx' \in { part_idx, part_idx + 1 }
           /\ (InPart /\ InPart' => part_idx' = part_idx)
           /\ UNCHANGED replication_tasks_parts ]_vars

\* the part of t2, which is not recursive and comes first in the list of
\* tasks, runs second, after the part of the recursive t1 for the same
\* source dataset
RecursivePartRanFirst ==
    /\ InAttempt
    /\ part_idx = 2
    /\ Part = [ task |-> "t2", source_dataset |-> << "a" >>, recursive |-> FALSE ]
    /\ Parts[1] = [ task |-> "t1", source_dataset |-> << "a" >>, recursive |-> TRUE ]
    /\ replication_tasks[1].id = "t2"
    /\ Len(Parts) = 3

(***************************************************************************)
(* Properties of the snapshots_sent that the events report.                *)
(***************************************************************************)
\* C22: snapshots_sent of a task never decreases and every Snapshot event
\* reports a value between the counter before and the counter after the step
\* that notifies it, so that the values of successive events never decrease;
\* SnapshotStart and SnapshotProgress report the counter as it stands while
\* the step runs, and SnapshotSuccess reports one more than that.
ReportedSentIsMonotone ==
    /\ [][ \A t \in TaskIds : SnapshotsSent(t)' >= SnapshotsSent(t) ]_vars
    /\ [][ last_event'.type \in SnapshotEvents =>
             /\ last_event'.task = Part.task
             /\ last_event'.sent >= SnapshotsSent(Part.task)
             /\ last_event'.sent <= SnapshotsSent(Part.task)' ]_vars
    /\ [](pc = "run_replication_step" /\ last_event.type \in SnapshotEvents =>
             /\ last_event.type \in { "SnapshotStart", "SnapshotProgress" }
             /\ last_event.sent = SnapshotsSent(Part.task))
    /\ [][ pc = "run_replication_step" =>
             \A t \in TaskIds : pc' = pc => SnapshotsSent(t)' = SnapshotsSent(t) ]_vars
    /\ [][ last_event'.type = "SnapshotStart" =>
             /\ pc' = "run_replication_step"
             /\ last_event'.sent = SnapshotsSent(Part.task) ]_vars
    /\ [][ last_event'.type = "SnapshotSuccess" =>
             /\ pc = "run_replication_step"
             /\ last_event'.sent = SnapshotsSent(Part.task) + 1 ]_vars

\* the second SnapshotSuccess of a task reports 2, the counter just
\* incremented
SecondSnapshotSuccess ==
    /\ last_event.type = "SnapshotSuccess"
    /\ last_event.sent = 2
    /\ SnapshotsSent(last_event.task) = 2
    /\ Len(sent_log[last_event.task]) = 2

(***************************************************************************)
(* Properties of destroy_empty_encrypted_target: the destruction.          *)
(***************************************************************************)
\* the target dataset exists, empty and encrypted below another encryption
\* root: no snapshots, no receive_resume_token, encryption not off, mounted
\* and without data
EmptyEncryptedTarget ==
    /\ zfs[TargetDataset].exists
    /\ zfs[TargetDataset].snapshots = <<>>
    /\ zfs[TargetDataset].receive_resume_token = "-"
    /\ zfs[TargetDataset].encryption # "off"
    /\ ~zfs[TargetDataset].own_encryptionroot
    /\ zfs[TargetDataset].mounted
    /\ ~zfs[TargetDataset].has_data

\* the commands that the step issues
NewWrites ==
    IF Len(provider_writes') >= Len(provider_writes)
    THEN SubSeq(provider_writes', Len(provider_writes) + 1, Len(provider_writes'))
    ELSE <<>>

\* C23: zfs destroy of a dataset is issued, and a dataset ceases to exist,
\* only in destroy_empty_encrypted_target, for the part's target dataset and
\* when that exists without snapshots and without a receive_resume_token,
\* is encrypted, is not its own encryption root, is mounted and holds no
\* data; otherwise destroy_empty_encrypted_target leaves the pool and the
\* maps of the destination context as they are and returns or raises a
\* ReplicationError.
DestroysOnlyEmptyEncryptedTarget ==
    /\ [][ \A d \in DestinationDatasets :
             (\/ zfs[d].exists /\ ~zfs'[d].exists
              \/ \E k \in 1..Len(NewWrites) :
                    NewWrites[k].cmd = "destroy" /\ NewWrites[k].dataset = d) =>
                 /\ pc = "destroy_empty_encrypted_target"
                 /\ d = TargetDataset
                 /\ d \in DOMAIN dst_datasets
                 /\ EmptyEncryptedTarget ]_vars
    /\ [][ (pc = "destroy_empty_encrypted_target" /\ ~EmptyEncryptedTarget) =>
             /\ UNCHANGED << zfs, dst_datasets, dst_datasets_readonly,
                             dst_datasets_receive_resume_tokens, provider_writes >>
             /\ \/ pc' = "resume_replications"
                \/ pc' = "except" /\ raised'.class = "ReplicationError" ]_vars

\* the empty encrypted target T/a has been destroyed and is off the maps
EmptyEncryptedTargetDestroyed ==
    /\ pc = "resume_replications"
    /\ provider_writes = << Command("destroy", << "T", "a" >>) >>
    /\ ~zfs[<< "T", "a" >>].exists
    /\ << "T", "a" >> \notin DOMAIN dst_datasets
    /\ << "T", "a" >> \notin DOMAIN dst_datasets_readonly

(***************************************************************************)
(* Properties of resume_replications and of what follows it.               *)
(***************************************************************************)
\* the k-th command of the attempt is a resume whose process returned
ResumeReturned(k) ==
    /\ provider_writes[k].cmd = "send"
    /\ provider_writes[k].receive_resume_token # None
    /\ (pc = "run_replication_step" => k < Len(provider_writes))
    /\ (k < Len(provider_writes) => provider_writes[k + 1].cmd # "recv -A")

\* the k-th command of the attempt is the send of a snapshot
SnapshotSend(k) ==
    /\ provider_writes[k].cmd = "send"
    /\ provider_writes[k].receive_resume_token = None

\* C24: in an attempt no resume starts after the send of a snapshot has
\* started; a snapshot whose receive was resumed is not sent again in the
\* attempt, and the first snapshot sent after it into its dataset has it as
\* incremental base; when resume_replications returns, the templates and
\* the lists of snapshots are calculated again from the pools if a step was
\* resumed, and are left as they are if none was.
ResumesBeforeSendsAndRebuild ==
    /\ [](InAttempt =>
            \A j, k \in 1..Len(provider_writes) :
                /\ (SnapshotSend(j) /\ provider_writes[k].cmd = "send"
                        /\ provider_writes[k].receive_resume_token # None) => k < j
                /\ (ResumeReturned(j) /\ SnapshotSend(k)
                        /\ provider_writes[k].dataset = provider_writes[j].dataset) =>
                       /\ provider_writes[k].snapshot # provider_writes[j].receive_resume_token
                       /\ (\A m \in 1..(k - 1) :
                               SnapshotSend(m) =>
                                   provider_writes[m].dataset # provider_writes[k].dataset) =>
                              provider_writes[k].incremental_base =
                                  provider_writes[j].receive_resume_token)
    /\ [][ (pc = "resume_replications" /\ pc' = "run_replication_steps") =>
             IF resumed
             THEN /\ src_datasets' = ListDatasetsWithSnapshots(Part.source_dataset,
                                                               Task.recursive)
                  /\ DOMAIN dst_datasets' = { d \in PartDestinations : zfs[d].exists }
                  /\ \A d \in DOMAIN dst_datasets' :
                        /\ dst_datasets'[d] = zfs[d].snapshots
                        /\ dst_datasets_receive_resume_tokens'[d] = None
                            \/ dst_datasets_receive_resume_tokens'[d] =
                                   zfs[d].receive_resume_token
                  /\ retired_sent'[Part.task] = SnapshotsSent(Part.task)
                  /\ dst_datasets' # dst_datasets
             ELSE UNCHANGED << listvars, step_templates, ctxvars >> ]_vars

\* after the receive of s1 into T/a was resumed, s2 is sent on the base s1
SendAfterResumedSnapshot ==
    /\ pc = "run_replication_step"
    /\ Len(provider_writes) = 4
    /\ ResumeReturned(2)
    /\ provider_writes[2].receive_resume_token = "s1"
    /\ provider_writes[2].dataset = << "T", "a" >>
    /\ SnapshotSend(4)
    /\ provider_writes[4].dataset = << "T", "a" >>
    /\ provider_writes[4].snapshot = "s2"
    /\ provider_writes[4].incremental_base = "s1"

(***************************************************************************)
(* Properties of handle_readonly: zfs inherit readonly.                    *)
(***************************************************************************)
\* C25: zfs inherit readonly is issued for a destination dataset only when
\* task.readonly is SET or REQUIRE, the map of the destination context has
\* the dataset's parent as readonly and the dataset itself as not readonly.
InheritOnlyUnderReadonlyParent ==
    [][ \A k \in 1..Len(NewWrites) :
          NewWrites[k].cmd = "inherit readonly" =>
              /\ Task.readonly \in { "set", "require" }
              /\ Get(dst_datasets_readonly, Dirname(NewWrites[k].dataset), FALSE)
              /\ NewWrites[k].dataset \in DOMAIN dst_datasets_readonly
              /\ ~dst_datasets_readonly[NewWrites[k].dataset] ]_vars

(***************************************************************************)
(* Properties of the planning loop: the destruction of snapshots.          *)
(***************************************************************************)
\* C26: the snapshots of a destination dataset are destroyed only in the
\* planning of a template for which the planner returned at least one
\* snapshot to send.
DestroysSnapshotsOnlyToSend ==
    [][ \A k \in 1..Len(NewWrites) :
          NewWrites[k].cmd = "destroy snapshots" =>
              /\ Planning
              /\ NewWrites[k].dataset = PlannedTemplate.dst_dataset
              /\ GetSnapshotsToSend(src_datasets[PlannedTemplate.src_dataset],
                                    PlannedDstSnapshots, Task).snapshots_to_send # <<>> ]_vars

(***************************************************************************)
(* Properties of resume_replications: the failures of a resume step.       *)
(***************************************************************************)
\* the process of the resume step in progress can fail with one of the two
\* messages of an obsolete token
ObsoleteTokenFailure ==
    /\ pc = "run_replication_step"
    /\ step.receive_resume_token # None
    /\ ProcessStdout(step) \cap ObsoleteTokenMessages # {}

\* C27: zfs recv -A is issued only for the dataset of a resume step whose
\* process failed with a message of an obsolete token, and resume_replications
\* then goes on; a resume step that fails otherwise leaves the part with its
\* exception, issuing no command and leaving the pool and the counters of
\* the task as they are, and no send of a snapshot has been started in the
\* attempt.
TokenDiscardedOnlyWhenObsolete ==
    /\ [][ \A k \in 1..Len(NewWrites) :
             NewWrites[k].cmd = "recv -A" =>
                 /\ ObsoleteTokenFailure
                 /\ NewWrites[k].dataset = step.dst_dataset
                 /\ pc' = "resume_replications"
                 /\ raised' = raised ]_vars
    /\ [][ (/\ pc = "run_replication_step"
            /\ step.receive_resume_token # None
            /\ pc' = "except") =>
               /\ NewWrites = <<>>
               /\ provider_writes[Len(provider_writes)].cmd = "send"
               /\ provider_writes[Len(provider_writes)].receive_resume_token
                      = step.receive_resume_token
               /\ ~SnapshotSendStarted
               /\ raised'.class \in ShellExceptions
               /\ UNCHANGED << zfs, ctxvars, sent_log >> ]_vars

\* the resume of the receive of s2 into T/a failed otherwise: the exception
\* left the attempt, and T/a still has its token and the template its total
ResumeFailedOtherwise ==
    /\ pc = "except"
    /\ provider_writes = << Command("umount", << "T", "a" >>),
                            [ Command("send", << "T", "a" >>)
                                EXCEPT !.receive_resume_token = "s2" ] >>
    /\ zfs[<< "T", "a" >>].receive_resume_token = "s2"
    /\ SnapshotsTotal(Part.task) = 1
    /\ raised.class = "ExecException"

=============================================================================
